---------------------------- MODULE Spec2Model ----------------------------
(***************************************************************************)
(* A model of the MazeRunner Python SDK (mazerunner/api_client.py): the    *)
(* transport (APIClient.api_request), the entity proxy (BaseEntity,        *)
(* Entity and the entity classes built on them) and the collections        *)
(* (Collection and its filterable subclasses).                             *)
(*                                                                         *)
(* Python values are records [type, repr] of two strings, so that values   *)
(* of different Python types can be compared.  A dict is a function from   *)
(* a set of keys; a list is a sequence.                                    *)
(***************************************************************************)
EXTENDS Integers, Sequences, FiniteSets, TLC

VARIABLES
    call,       \* transport: the arguments of the api_request call under study
    resp,       \* transport: the HTTP response the session returned for it
    result,     \* transport: what api_request did with it ("pending" before)
    entity,     \* entity: the entity object (_param_dict and the attributes set by setattr)
    server,     \* entity: the field mapping the server holds for the entity
    requests,   \* entity: the number of requests its operations issued so far
    outcome,    \* entity/collections: the last operation, the requests it sent, and
                \* what it returned or raised
    colls,      \* collections: the collection instances created so far
    born,       \* collections: for each instance, the query parameters it had when
                \* created and the call that created it
    items,      \* iteration: the server's data set, a sequence of item ids
    pageSize,   \* iteration: the page size the server serves
    iter,       \* iteration: the generator of Collection.__iter__
    client,     \* client: the APIClient object the caller holds
    download    \* client: the response and the file of request_and_download

vars == <<call, resp, result, entity, server, requests, outcome,
          colls, born, items, pageSize, iter, client, download>>

clientVars == <<client, download>>
transportVars == <<call, resp, result, clientVars>>
entityVars == <<entity, server>>
logVars == <<requests, outcome>>
collVars == <<colls, born>>
iterVars == <<items, pageSize, iter>>

-----------------------------------------------------------------------------
(* Python values *)

PyNone == [type |-> "NoneType", repr |-> "None"]
PyTrue == [type |-> "bool", repr |-> "True"]
PyFalse == [type |-> "bool", repr |-> "False"]
PyStr(s) == [type |-> "str", repr |-> s]
PyInt(s) == [type |-> "int", repr |-> s]
PyFloat(s) == [type |-> "float", repr |-> s]
PyList(s) == [type |-> "list", repr |-> s]
PyDict(s) == [type |-> "dict", repr |-> s]
PyBool(b) == IF b THEN PyTrue ELSE PyFalse

\* Python's truth value of an object: None, False, zero and the empty
\* string, list and dict are false.
Truthy(v) ==
    CASE v.type = "NoneType" -> FALSE
      [] v.type = "bool" -> v.repr = "True"
      [] v.type = "int" -> v.repr # "0"
      [] v.type = "float" -> v.repr # "0.0"
      [] v.type = "str" -> v.repr # ""
      [] v.type = "list" -> v.repr # "[]"
      [] v.type = "dict" -> v.repr # "{}"
      [] OTHER -> TRUE

\* isinstance(v, numbers.Number): int, long, float and complex are
\* registered as Number, and bool is a subclass of int.
IsNumber(v) == v.type \in {"int", "long", "float", "complex", "bool"}

\* The dict d after d.update(e).
DictUpdate(d, e) ==
    [k \in DOMAIN d \cup DOMAIN e |-> IF k \in DOMAIN e THEN e[k] ELSE d[k]]

EmptyDict == [k \in {} |-> PyNone]

-----------------------------------------------------------------------------
(* Transport: APIClient.api_request *)

NO_CONTENT == 204

\* The first character of str(n) for a status code n.
RECURSIVE FirstDigit(_)
FirstDigit(n) == IF n < 10 THEN n ELSE FirstDigit(n \div 10)

\* resp.json(): the bodies of the model that are JSON documents.
IsJson(body) == body \in {"{}", "[]", "{\"id\": 1}"}

\* What a call does: it raises exc(response_code, body), or it returns a
\* value: None, the response handle, the raw content or the parsed JSON.
Raise(exc, code, body) ==
    [kind |-> "raise", exc |-> exc, code |-> code, body |-> body, value |-> ""]
Return(how, body) ==
    [kind |-> "return", exc |-> "", code |-> 0, body |-> body, value |-> how]

\* The whole status classification of api_request, in the order of the code:
\* c is the call (method, stream, expect_json_response), r the response
\* (status_code, content_type, content).
api_request_delete_first(c, r) ==
    IF FirstDigit(r.status_code) = 4
      THEN Raise("ValidationError", r.status_code, r.content)
    ELSE IF FirstDigit(r.status_code) = 5
      THEN Raise("ServerError", r.status_code, r.content)
    ELSE IF c.method = "delete" \/ r.status_code = NO_CONTENT
      THEN Return("None", "")
    ELSE IF c.stream
      THEN Return("response", r.content)
    ELSE IF ~c.expect_json_response
      THEN Return("content", r.content)
    ELSE IF r.content_type # "application/json"
      THEN Raise("ValidationError", r.status_code, "Bad response content type")
    ELSE IF IsJson(r.content)
      THEN Return("json", r.content)
    ELSE Raise("ValidationError", r.status_code, "Bad response: Not json.")

api_request_swapped(c, r) ==
    IF FirstDigit(r.status_code) = 5
      THEN Raise("ValidationError", r.status_code, r.content)
    ELSE IF FirstDigit(r.status_code) = 4
      THEN Raise("ServerError", r.status_code, r.content)
    ELSE api_request_delete_first(c, r)

api_request(c, r) ==
    IF FirstDigit(r.status_code) = 4
      THEN Raise("ValidationError", r.status_code, r.content)
    ELSE IF FirstDigit(r.status_code) = 5
      THEN Raise("ServerError", r.status_code, r.content)
    ELSE IF c.stream
      THEN Return("response", r.content)
    ELSE IF c.method = "delete" \/ r.status_code = NO_CONTENT
      THEN Return("None", "")
    ELSE IF ~c.expect_json_response
      THEN Return("content", r.content)
    ELSE IF r.content_type # "application/json"
      THEN Raise("ValidationError", r.status_code, "Bad response content type")
    ELSE IF IsJson(r.content)
      THEN Return("json", r.content)
    ELSE Raise("ValidationError", r.status_code, "Bad response: Not json.")

Methods == {"get", "post", "put", "patch", "delete"}
StatusCodes == {200, 201, 204, 302, 400, 404, 422, 499, 500, 502, 599}
ContentTypes == {"application/json", "text/html", "None"}
Bodies == {"{}", "{\"id\": 1}", "<html>", ""}

Calls == [method : Methods, stream : BOOLEAN, expect_json_response : BOOLEAN]
Responses == [status_code : StatusCodes, content_type : ContentTypes, content : Bodies]

NoCall == [method |-> "get", stream |-> FALSE, expect_json_response |-> TRUE]
NoResp == [status_code |-> 0, content_type |-> "None", content |-> ""]
Pending == [kind |-> "pending", exc |-> "", code |-> 0, body |-> "", value |-> ""]

-----------------------------------------------------------------------------
(* Entities: BaseEntity, Entity and the entity classes *)

Classes == {"Service", "Breadcrumb", "DeploymentGroup", "Endpoint"}

RELATED_COLLECTIONS(cls) ==
    CASE cls = "Service" -> {"attached_decoys", "available_decoys"}
      [] cls = "Breadcrumb" ->
            {"attached_services", "available_services", "deployment_groups"}
      [] OTHER -> {}

RELATED_FIELDS(cls) ==
    IF cls = "Endpoint" THEN {"deployment_group"} ELSE {}

\* d.get(k, default)
DictGet(d, k, default) == IF k \in DOMAIN d THEN d[k] ELSE default

\* An entity is its class, its _param_dict and the instance attributes that
\* setattr created (the related views).
update_entity_data_replaced(e, data) ==
    [e EXCEPT !.dict = data]

update_entity_data(e, data) ==
    [e EXCEPT !.dict = DictUpdate(@, data)]

update_related_fields(e) ==
    LET collections ==
            [k \in RELATED_COLLECTIONS(e.cls) |->
                [kind |-> "RelatedCollection",
                 data |-> DictGet(e.dict, k, PyList("[]"))]]
        present == {k \in RELATED_FIELDS(e.cls) :
                        Truthy(DictGet(e.dict, k, PyNone))}
        fields == [k \in present |-> [kind |-> "Entity", data |-> e.dict[k]]]
    IN  [e EXCEPT !.attrs = DictUpdate(DictUpdate(@, collections), fields)]

\* BaseEntity.__init__(api_client, param_dict)
NewEntity(cls, param_dict) ==
    update_related_fields(
        update_entity_data([cls |-> cls, dict |-> EmptyDict, attrs |-> EmptyDict],
                           param_dict))


-----------------------------------------------------------------------------
(* The server side of one entity, and one request and response *)

EntityUrl == "https://mazerunner/api/v1.0/entity/1/"

\* The key of the payload that is particular to the class.
ClassKey(cls) ==
    CASE cls = "Service" -> "attached_decoys"
      [] cls = "Breadcrumb" -> "deployment_groups"
      [] cls = "DeploymentGroup" -> "description"
      [] OTHER -> "deployment_group"

\* The values the server can hold under a key.
FieldValues(k) ==
    CASE k = "name" -> {PyStr("a"), PyStr("b")}
      [] k = "description" -> {PyStr(""), PyStr("d")}
      [] k = "deployment_group" -> {PyNone, PyDict("{id: 7}")}
      [] OTHER -> {PyList("[]"), PyList("[{id: 7}]")}

ServerFields(cls) ==
    ("id" :> PyInt("1")) @@ ("url" :> PyStr(EntityUrl)) @@ ("name" :> PyStr("a"))
    @@ (ClassKey(cls) :> (CHOOSE v \in FieldValues(ClassKey(cls)) : ~Truthy(v)))
    @@ (IF cls = "Breadcrumb" THEN "breadcrumb_type" :> PyStr("ssh") ELSE EmptyDict)

\* A request as the session sends it: the url carries no query string, the
\* query parameters are in params.
Request(method, url, data) ==
    [method |-> method, url |-> url, params |-> EmptyDict, data |-> data]

\* The server's state after it carried out the request q.
ServerHandle(s, q) ==
    CASE q.method \in {"put", "patch"} ->
            [s EXCEPT !.fields = DictUpdate(@,
                [k \in DOMAIN q.data \cap DOMAIN @ |-> q.data[k]])]
      [] q.method = "delete" -> [s EXCEPT !.exists = FALSE]
      [] q.method = "post"
            /\ q.url = "https://mazerunner/api/v1.0/endpoint/delete_selected/" ->
            [s EXCEPT !.exists = FALSE]
      [] q.method = "post" /\ q.url = EntityUrl \o "add_to_group/" ->
            [s EXCEPT !.fields =
                DictUpdate(@, "deployment_groups" :> PyList("[{id: 7}]"))]
      [] q.method = "post" /\ q.url = EntityUrl \o "remove_from_group/" ->
            [s EXCEPT !.fields = DictUpdate(@, "deployment_groups" :> PyList("[]"))]
      [] q.method = "post" /\ q.url = EntityUrl \o "connect_to_service/" ->
            [s EXCEPT !.fields =
                DictUpdate(@, "attached_services" :> PyList("[{id: 7}]"))]
      [] q.method = "post" /\ q.url = EntityUrl \o "detach_from_service/" ->
            [s EXCEPT !.fields = DictUpdate(@, "attached_services" :> PyList("[]"))]
      [] q.method = "post" /\ q.url = EntityUrl \o "connect_to_decoy/" ->
            [s EXCEPT !.fields =
                DictUpdate(@, "attached_decoys" :> PyList("[{id: 7}]"))]
      [] q.method = "post" /\ q.url = EntityUrl \o "detach_from_decoy/" ->
            [s EXCEPT !.fields = DictUpdate(@, "attached_decoys" :> PyList("[]"))]
      [] OTHER -> s

\* The statuses with which the server can answer a request on the entity.
EntityStatuses(s) == IF s.exists THEN {200, 400, 500} ELSE {404, 500}

ServerResponse(s, st) ==
    [status_code |-> st, content_type |-> "application/json",
     content |-> IF st = 200 THEN "{\"id\": 1}" ELSE "{}",
     json |-> s.fields]

\* api_request(q) with the server answering with status st: the server's
\* state after it, what api_request did, and the parsed JSON body.
RoundTrip(s, q, st) ==
    LET s2 == IF st = 200 THEN ServerHandle(s, q) ELSE s
        r == ServerResponse(s2, st)
    IN  [s |-> s2,
         res |-> api_request([method |-> q.method, stream |-> FALSE,
                              expect_json_response |-> TRUE], r),
         json |-> r.json]

-----------------------------------------------------------------------------
(* The operations of an entity.  Each takes the entity e, the server s and  *)
(* the status of each request it may issue, and gives the entity and the    *)
(* server after it, the requests it sent and what it returned or raised.    *)

Self == [type |-> "Entity", repr |-> "self"]

Returned(v) ==
    [kind |-> "return", exc |-> "", code |-> 0, value |-> v]
Raised(exc, code) ==
    [kind |-> "raise", exc |-> exc, code |-> code, value |-> PyNone]

Done(e, s, sent, answers, out) ==
    [e |-> e, s |-> s, sent |-> sent, answers |-> answers, out |-> out]

\* BaseEntity.load
load(e, s, st) ==
    LET q == Request("get", e.dict["url"].repr, EmptyDict)
        t == RoundTrip(s, q, st)
    IN  IF t.res.kind = "raise"
          THEN Done(e, t.s, <<q>>, <<st>>, Raised(t.res.exc, t.res.code))
        ELSE IF t.res.value # "json"
          THEN Done(e, t.s, <<q>>, <<st>>, Raised("TypeError", 0))
        ELSE Done(update_related_fields(update_entity_data(e, t.json)),
                  t.s, <<q>>, <<st>>, Returned(Self))

\* The attribute lookup entity.item: the instance attributes first, then
\* BaseEntity.__getattr__.
getattr_cached_miss(e, s, item, st) ==
    IF item \in DOMAIN e.attrs
      THEN Done(e, s, <<>>, <<>>,
                Returned([type |-> e.attrs[item].kind,
                          repr |-> e.attrs[item].data.repr]))
    ELSE LET l == IF item \notin DOMAIN e.dict /\ DOMAIN e.dict = {"id", "url"}
                    THEN load(e, s, st)
                    ELSE Done(e, s, <<>>, <<>>, Returned(Self))
         IN  IF l.out.kind = "raise" THEN l
             ELSE IF item \notin DOMAIN l.e.dict
               THEN [l EXCEPT !.out = Raised("AttributeError", 0)]
             ELSE [l EXCEPT !.out = Returned(l.e.dict[item])]

getattr_attribute_error(e, s, item, st) ==
    IF item \in DOMAIN e.attrs
      THEN Done(e, s, <<>>, <<>>,
                Returned([type |-> e.attrs[item].kind,
                          repr |-> e.attrs[item].data.repr]))
    ELSE LET l == IF item \notin DOMAIN e.dict
                    THEN load(e, s, st)
                    ELSE Done(e, s, <<>>, <<>>, Returned(Self))
         IN  IF l.out.kind = "raise" \/ item \notin DOMAIN l.e.dict
               THEN [l EXCEPT !.out = Raised("AttributeError", 0)]
             ELSE [l EXCEPT !.out = Returned(l.e.dict[item])]

getattr(e, s, item, st) ==
    IF item \in DOMAIN e.attrs
      THEN Done(e, s, <<>>, <<>>,
                Returned([type |-> e.attrs[item].kind,
                          repr |-> e.attrs[item].data.repr]))
    ELSE LET l == IF item \notin DOMAIN e.dict
                    THEN load(e, s, st)
                    ELSE Done(e, s, <<>>, <<>>, Returned(Self))
         IN  IF l.out.kind = "raise" THEN l
             ELSE IF item \notin DOMAIN l.e.dict
               THEN [l EXCEPT !.out = Raised("AttributeError", 0)]
             ELSE [l EXCEPT !.out = Returned(l.e.dict[item])]

\* Entity._update_item
update_item(e, s, data, st) ==
    LET q == Request("put", e.dict["url"].repr, data)
        t == RoundTrip(s, q, st)
    IN  IF t.res.kind = "raise"
          THEN Done(e, t.s, <<q>>, <<st>>, Raised(t.res.exc, t.res.code))
        ELSE IF t.res.value # "json"
          THEN Done(e, t.s, <<q>>, <<st>>, Raised("TypeError", 0))
        ELSE Done(update_entity_data(e, t.json), t.s, <<q>>, <<st>>, Returned(PyNone))

\* Entity._partial_update_item
partial_update_item_all(e, s, data, st) ==
    LET q == Request("patch", e.dict["url"].repr, data)
        t == RoundTrip(s, q, st)
    IN  IF t.res.kind = "raise"
          THEN Done(e, t.s, <<q>>, <<st>>, Raised(t.res.exc, t.res.code))
        ELSE Done(update_entity_data(e, t.json), t.s, <<q>>, <<st>>, Returned(PyNone))

partial_update_item(e, s, data, st) ==
    LET non_empty_data == [k \in {j \in DOMAIN data : Truthy(data[j])} |-> data[k]]
        q == Request("patch", e.dict["url"].repr, non_empty_data)
        t == RoundTrip(s, q, st)
    IN  IF DOMAIN non_empty_data = {}
          THEN Done(e, s, <<>>, <<>>, Returned(PyNone))
        ELSE IF t.res.kind = "raise"
          THEN Done(e, t.s, <<q>>, <<st>>, Raised(t.res.exc, t.res.code))
        ELSE IF t.res.value # "json"
          THEN Done(e, t.s, <<q>>, <<st>>, Raised("TypeError", 0))
        ELSE Done(update_entity_data(e, t.json), t.s, <<q>>, <<st>>, Returned(PyNone))

\* DeploymentGroup.update and DeploymentGroup.partial_update
update(e, s, name, description, st) ==
    update_item(e, s, ("name" :> name) @@ ("description" :> description), st)

partial_update(e, s, name, description, st) ==
    partial_update_item(e, s,
        ("name" :> name) @@ ("description" :> description), st)

\* The classes that define partial_update: DeploymentGroup alone.  Service,
\* Breadcrumb and Endpoint inherit _partial_update_item from Entity and
\* define no partial_update.
DefinesPartialUpdate(cls) == cls = "DeploymentGroup"

\* entity.partial_update(name=name): the method of the class when the class
\* defines one; otherwise the lookup falls to BaseEntity.__getattr__, and the
\* call is never made.
call_partial_update(e, s, name, st) ==
    IF DefinesPartialUpdate(e.cls)
      THEN partial_update(e, s, name, PyNone, st)
      ELSE getattr(e, s, "partial_update", st)

\* Breadcrumb.update(name): the breadcrumb_type of the entity is read, by a
\* reload when the entity does not hold it, and put with the name.
breadcrumb_update(e, s, name, st0, st) ==
    LET g == getattr(e, s, "breadcrumb_type", st0)
        u == update_item(g.e, g.s,
                         ("name" :> name) @@ ("breadcrumb_type" :> g.out.value), st)
    IN  IF g.out.kind = "raise" THEN g
        ELSE [u EXCEPT !.sent = g.sent \o @, !.answers = g.answers \o @]

\* Entity.delete
delete(e, s, st) ==
    LET q == Request("delete", e.dict["url"].repr, EmptyDict)
        t == RoundTrip(s, q, st)
    IN  IF t.res.kind = "raise"
          THEN Done(e, t.s, <<q>>, <<st>>, Raised(t.res.exc, t.res.code))
          ELSE Done(e, t.s, <<q>>, <<st>>, Returned(PyNone))

\* Breadcrumb.add_to_group
add_to_group_unchecked(e, s, deployment_group_id, st1, st2) ==
    LET q == Request("post", e.dict["url"].repr \o "add_to_group/",
                     "deployment_group_id" :> deployment_group_id)
        t == RoundTrip(s, q, st1)
        l == load(e, t.s, st2)
    IN  IF t.res.kind = "raise"
          THEN Done(e, t.s, <<q>>, <<st1>>, Raised(t.res.exc, t.res.code))
          ELSE Done(l.e, l.s, <<q>> \o l.sent, <<st1>> \o l.answers,
                    IF l.out.kind = "raise" THEN l.out ELSE Returned(PyNone))

add_to_group(e, s, deployment_group_id, st1, st2) ==
    LET q == Request("post", e.dict["url"].repr \o "add_to_group/",
                     "deployment_group_id" :> deployment_group_id)
        t == RoundTrip(s, q, st1)
        l == load(e, t.s, st2)
    IN  IF ~IsNumber(deployment_group_id)
          THEN Done(e, s, <<>>, <<>>, Raised("BadParamError", 0))
        ELSE IF t.res.kind = "raise"
          THEN Done(e, t.s, <<q>>, <<st1>>, Raised(t.res.exc, t.res.code))
          ELSE Done(l.e, l.s, <<q>> \o l.sent, <<st1>> \o l.answers,
                    IF l.out.kind = "raise" THEN l.out ELSE Returned(PyNone))

\* Breadcrumb.remove_from_group, Breadcrumb.connect_to_service,
\* Breadcrumb.detach_from_service, Service.connect_to_decoy and
\* Service.detach_from_decoy: the id is posted as it is given under the name
\* param to the url of the entity with the name of the method appended, and
\* the entity is reloaded.
post_id_unloaded(e, s, method, param, id, st1, st2) ==
    LET q == Request("post", e.dict["url"].repr \o method \o "/", param :> id)
        t == RoundTrip(s, q, st1)
    IN  IF t.res.kind = "raise"
          THEN Done(e, t.s, <<q>>, <<st1>>, Raised(t.res.exc, t.res.code))
          ELSE Done(e, t.s, <<q>>, <<st1>>, Returned(PyNone))

post_id(e, s, method, param, id, st1, st2) ==
    LET q == Request("post", e.dict["url"].repr \o method \o "/", param :> id)
        t == RoundTrip(s, q, st1)
        l == load(e, t.s, st2)
    IN  IF t.res.kind = "raise"
          THEN Done(e, t.s, <<q>>, <<st1>>, Raised(t.res.exc, t.res.code))
          ELSE Done(l.e, l.s, <<q>> \o l.sent, <<st1>> \o l.answers,
                    IF l.out.kind = "raise" THEN l.out ELSE Returned(PyNone))

\* The methods that post an id, and the name under which each posts it.
IdMethods(cls) ==
    CASE cls = "Breadcrumb" ->
            {"remove_from_group", "connect_to_service", "detach_from_service"}
      [] cls = "Service" -> {"connect_to_decoy", "detach_from_decoy"}
      [] OTHER -> {}

IdParam(method) ==
    CASE method = "remove_from_group" -> "deployment_group_id"
      [] method \in {"connect_to_service", "detach_from_service"} -> "service_id"
      [] OTHER -> "decoy_id"

-----------------------------------------------------------------------------
(* Collections: the filterable subclasses of Collection *)

ENTRIES_PER_PAGE == PyInt("500")

\* The collections that have filter, and one that has not.
FilterableClasses ==
    {"AlertCollection", "EndpointCollection", "BackgroundTaskCollection",
     "AuditLogLineCollection"}
CollectionClasses == FilterableClasses \cup {"BreadcrumbCollection"}

\* _get_url: api_urls[NAME] for the NAME of the class of the members.
get_url(cls) ==
    CASE cls = "AlertCollection" -> "https://mazerunner/api/v1.0/alert/"
      [] cls = "EndpointCollection" -> "https://mazerunner/api/v1.0/endpoint/"
      [] cls = "BackgroundTaskCollection" ->
            "https://mazerunner/api/v1.0/background-task/"
      [] cls = "AuditLogLineCollection" -> "https://mazerunner/api/v1.0/audit-log/"
      [] cls = "DeploymentGroupCollection" ->
            "https://mazerunner/api/v1.0/deployment-group/"
      [] OTHER -> "https://mazerunner/api/v1.0/breadcrumb/"

\* The elements of the list values of the model.
ListElems(v) ==
    CASE v.repr = "['code']" -> <<"code">>
      [] v.repr = "['share', 'http']" -> <<"share", "http">>
      [] v.repr = "['admin']" -> <<"admin">>
      [] OTHER -> <<>>

\* sep.join(seq)
RECURSIVE Join(_, _)
Join(seq, sep) ==
    IF seq = <<>> THEN ""
    ELSE IF Len(seq) = 1 THEN seq[1]
    ELSE seq[1] \o sep \o Join(Tail(seq), sep)

\* The attributes that __init__ gives an instance built with no argument
\* but the client, which is what the properties of APIClient build.
InitDefaults(cls) ==
    CASE cls = "AlertCollection" ->
            [filter_enabled |-> PyFalse, only_alerts |-> PyFalse,
             alert_types |-> PyNone, start_date |-> PyNone, end_date |-> PyNone,
             id_greater_than |-> PyNone, username |-> PyNone, source |-> PyNone,
             keywords |-> PyNone, decoy_name |-> PyNone]
      [] cls = "EndpointCollection" ->
            [filter_enabled |-> PyFalse, keywords |-> PyStr(""),
             statuses |-> PyNone, deploy_groups |-> PyNone]
      [] cls = "BackgroundTaskCollection" -> [running |-> PyTrue]
      [] cls = "AuditLogLineCollection" ->
            [filter_enabled |-> PyFalse, item |-> PyNone, username |-> PyNone,
             event_type |-> PyNone, keywords |-> PyNone, start_date |-> PyNone,
             end_date |-> PyNone, object_ids |-> PyNone, category |-> PyNone]
      [] OTHER -> EmptyDict

\* The defaults of the parameters of filter.
FilterDefaults(cls) ==
    CASE cls = "AlertCollection" ->
            [filter_enabled |-> PyFalse, only_alerts |-> PyFalse,
             alert_types |-> PyNone, start_date |-> PyNone, end_date |-> PyNone,
             id_greater_than |-> PyNone, username |-> PyNone, source |-> PyNone,
             keywords |-> PyNone, decoy_name |-> PyNone]
      [] cls = "EndpointCollection" -> [keywords |-> PyStr("")]
      [] cls = "BackgroundTaskCollection" -> [running |-> PyTrue]
      [] cls = "AuditLogLineCollection" ->
            [filter_enabled |-> PyTrue, item |-> PyNone, username |-> PyNone,
             event_type |-> PyNone, start_date |-> PyNone, end_date |-> PyNone,
             object_ids |-> PyNone, category |-> PyNone]
      [] OTHER -> EmptyDict

\* __init__(api_client, **kwargs) of the class.
NewCollection(cls, kwargs) ==
    [cls |-> cls, attrs |-> DictUpdate(InitDefaults(cls), kwargs)]

\* _get_query_params
get_query_params(c) ==
    CASE c.cls = "AlertCollection" ->
            [filter_enabled |-> c.attrs["filter_enabled"],
             only_alerts |-> c.attrs["only_alerts"],
             alert_types |-> c.attrs["alert_types"],
             per_page |-> ENTRIES_PER_PAGE,
             start_date |-> c.attrs["start_date"],
             end_date |-> c.attrs["end_date"],
             id_gt |-> c.attrs["id_greater_than"],
             username |-> c.attrs["username"],
             source |-> c.attrs["source"],
             keywords |-> c.attrs["keywords"],
             decoy_name |-> c.attrs["decoy_name"]]
      [] c.cls = "EndpointCollection" ->
            [filter_enabled |-> c.attrs["filter_enabled"],
             keywords |-> c.attrs["keywords"],
             statuses |-> c.attrs["statuses"],
             deploy_groups |-> c.attrs["deploy_groups"]]
      [] c.cls = "BackgroundTaskCollection" ->
            [running |-> c.attrs["running"]]
      [] c.cls = "AuditLogLineCollection" ->
            ("filter_enabled" :> c.attrs["filter_enabled"])
            @@ ("end_date" :> c.attrs["end_date"])
            @@ ("start_date" :> c.attrs["start_date"])
            @@ ("per_page" :> ENTRIES_PER_PAGE)
            @@ ("username[]" :> c.attrs["username"])
            @@ ("category[]" :> c.attrs["category"])
            @@ ("event_type[]" :> c.attrs["event_type"])
            @@ ("object_ids" :> c.attrs["object_ids"])
            @@ ("item" :> c.attrs["item"])
      [] OTHER -> EmptyDict

\* AuditLogLineCollection.filter refuses a username, event_type or category
\* that is given and is not a list.
BadListParam(args) ==
    \E k \in {"username", "event_type", "category"} :
        Truthy(args[k]) /\ args[k].type # "list"

\* filter(**kwargs) on the instance c: the collection it returns, or the
\* error it raises.  The receiver c gives the class only.
filter_merged(c, kwargs) ==
    [raises |-> FALSE,
     new |-> NewCollection(c.cls, DictUpdate(c.attrs, kwargs))]

filter_enabled_always(c, kwargs) ==
    LET args == DictUpdate(FilterDefaults(c.cls), kwargs)
    IN  [raises |-> FALSE,
         new |-> NewCollection(c.cls,
                    DictUpdate(args, "filter_enabled" :> PyTrue))]

filter(c, kwargs) ==
    LET args == DictUpdate(FilterDefaults(c.cls), kwargs)
    IN  CASE c.cls = "AlertCollection" ->
                [raises |-> FALSE,
                 new |-> NewCollection(c.cls,
                    [args EXCEPT !["alert_types"] =
                        IF Truthy(@) THEN PyStr(Join(ListElems(@), " "))
                                     ELSE PyStr("")])]
          [] c.cls = "EndpointCollection" ->
                [raises |-> FALSE,
                 new |-> NewCollection(c.cls,
                    ("filter_enabled" :> PyTrue)
                    @@ ("keywords" :> args["keywords"]))]
          [] c.cls = "BackgroundTaskCollection" ->
                [raises |-> FALSE,
                 new |-> NewCollection(c.cls, "running" :> args["running"])]
          [] OTHER ->
                [raises |-> BadListParam(args),
                 new |-> NewCollection(c.cls, args)]

\* The instances after a.filter(**kwargs): filter builds a new instance and
\* touches no other.
apply_filter_in_place(cs, a, kwargs) ==
    IF filter(cs[a], kwargs).raises THEN cs
    ELSE Append([cs EXCEPT ![a] = filter(cs[a], kwargs).new],
                filter(cs[a], kwargs).new)

apply_filter(cs, a, kwargs) ==
    IF filter(cs[a], kwargs).raises THEN cs
    ELSE Append(cs, filter(cs[a], kwargs).new)

-----------------------------------------------------------------------------
(* The query string handling of api_request, and the paginated server *)

\* A url is its text up to the query string and the query string as a
\* sequence of <<name, value>> pairs.
Url(path, query) == [path |-> path, query |-> query]
NoUrl == Url("", <<>>)

\* {name: set(values)} over urlparse.parse_qs(query)
ParseQuery(query) ==
    [k \in {query[i][1] : i \in DOMAIN query} |->
        [type |-> "set",
         members |-> {query[i][2] : i \in {j \in DOMAIN query : query[j][1] = k}}]]

\* The request api_request prepares for (method, url, query_params): the
\* url without its query string, and the url's parameters updated with the
\* explicit ones.
PrepareRequest_url_wins(method, url, query_params) ==
    [method |-> method, url |-> url.path,
     params |-> DictUpdate(query_params, ParseQuery(url.query)),
     data |-> EmptyDict]

PrepareRequest(method, url, query_params) ==
    [method |-> method, url |-> url.path,
     params |-> DictUpdate(ParseQuery(url.query), query_params),
     data |-> EmptyDict]

\* The page the request asks for: its page parameter, the first by default.
PageOf(q, last) ==
    IF "page" \in DOMAIN q.params /\ DOMAIN q.params["page"] = {"type", "members"}
      THEN CHOOSE k \in 1..last : ToString(k) \in q.params["page"].members
      ELSE 1

Min(a, b) == IF a < b THEN a ELSE b

\* The pagination envelope the server answers q with, its data set being
\* its and its page size P.  The link to the next page names the page and,
\* when the request asked for a page size, the page size the server serves.
ServePage(its, P, q) ==
    LET k == PageOf(q, Len(its) + 1)
    IN  [count |-> Len(its),
         next |-> IF k * P < Len(its)
                    THEN Url(q.url,
                             << <<"page", ToString(k + 1)>> >>
                             \o IF "per_page" \in DOMAIN q.params
                                  THEN << <<"per_page", ToString(P)>> >>
                                  ELSE <<>>)
                    ELSE NoUrl,
         results |-> SubSeq(its, (k - 1) * P + 1, Min(k * P, Len(its)))]


\* What the server answers with status st, as api_request classifies it.
Fetch(st) ==
    api_request([method |-> "get", stream |-> FALSE, expect_json_response |-> TRUE],
                [status_code |-> st, content_type |-> "application/json",
                 content |-> IF st = 200 THEN "{\"id\": 1}" ELSE "{}"])

\* Collection._iter_chunks: the request of the first page of the instance c,
\* the request that follows the link of the response, and the test for it.
first_page_resumed(c) ==
    PrepareRequest("get", Url(get_url(c.cls), <<>>),
                   DictUpdate(get_query_params(c), "page" :> PyInt("2")))

first_page(c) ==
    PrepareRequest("get", Url(get_url(c.cls), <<>>), get_query_params(c))

next_page(it) == PrepareRequest("get", it.next, it.query_params)

\* api_request raises out of _iter_chunks while it fetches a page: the
\* generator is finished, with what it had yielded.
iter_chunks_retried(it) == [it EXCEPT !.pages = @ + 1]

iter_chunks_raised(it) == [it EXCEPT !.pc = "failed", !.pages = @ + 1]

has_next_never(it) == FALSE

has_next(it) == it.next # NoUrl

\* Endpoint.delete: a POST of the id of the endpoint to delete_selected/ of
\* the endpoint collection.
endpoint_delete_by_url(e, s, st) ==
    LET q == Request("delete", e.dict["url"].repr, EmptyDict)
        t == RoundTrip(s, q, st)
    IN  IF t.res.kind = "raise"
          THEN Done(e, t.s, <<q>>, <<st>>, Raised(t.res.exc, t.res.code))
          ELSE Done(e, t.s, <<q>>, <<st>>, Returned(PyNone))

endpoint_delete(e, s, st) ==
    LET q == [PrepareRequest("post",
                  Url(get_url("EndpointCollection") \o "delete_selected/",
                      << <<"filter_enabled", "true">> >>),
                  EmptyDict)
              EXCEPT !.data = "selected_endpoints_ids" :>
                                PyList("[" \o e.dict["id"].repr \o "]")]
        t == RoundTrip(s, q, st)
    IN  IF t.res.kind = "raise"
          THEN Done(e, t.s, <<q>>, <<st>>, Raised(t.res.exc, t.res.code))
          ELSE Done(e, t.s, <<q>>, <<st>>, Returned(PyNone))

-----------------------------------------------------------------------------
(* The values of the variables a specification does not use *)

NoEntity == [cls |-> "none", dict |-> EmptyDict, attrs |-> EmptyDict]
NoServer == [exists |-> FALSE, fields |-> EmptyDict]
NoOutcome ==
    [op |-> "none", target |-> 0, item |-> "", data |-> EmptyDict, kind |-> "none",
     exc |-> "", code |-> 0, value |-> PyNone, sent |-> <<>>, answers |-> <<>>]
NoIter ==
    [pc |-> "idle", coll |-> 0, query_params |-> EmptyDict, next |-> NoUrl,
     chunk |-> <<>>, yielded |-> <<>>, pages |-> 0, dirty |-> FALSE]

EntityIdle == entity = NoEntity /\ server = NoServer
LogIdle == requests = 0 /\ outcome = NoOutcome
CollIdle == colls = <<>> /\ born = <<>>
IterIdle == items = <<>> /\ pageSize = 1 /\ iter = NoIter
NoClient == [base_url |-> "", certificate |-> PyNone, api_urls |-> FALSE]
NoDownload ==
    [pc |-> "idle", connection |-> "none", dest |-> "", files |-> EmptyDict,
     handle |-> "none", size |-> 0, written |-> 0, exc |-> ""]
ClientIdle == client = NoClient /\ download = NoDownload
TransportIdle ==
    call = NoCall /\ resp = NoResp /\ result = Pending /\ ClientIdle

-----------------------------------------------------------------------------
(* SpecRequest: api_request applied to every call and response *)

InitRequest ==
    /\ call \in Calls
    /\ resp = NoResp
    /\ result = Pending
    /\ ClientIdle /\ EntityIdle /\ LogIdle /\ CollIdle /\ IterIdle

\* The session sends the prepared request and the server answers it.
Respond ==
    /\ resp = NoResp
    /\ resp' \in Responses
    /\ UNCHANGED <<call, result, clientVars, entityVars, logVars, collVars,
                   iterVars>>

\* api_request classifies the response: it raises or returns.
Classify ==
    /\ resp # NoResp
    /\ result = Pending
    /\ result' = api_request(call, resp)
    /\ UNCHANGED <<call, resp, clientVars, entityVars, logVars, collVars,
                   iterVars>>

\* The caller makes another call.
NextCall ==
    /\ result # Pending
    /\ call' \in Calls
    /\ resp' = NoResp
    /\ result' = Pending
    /\ UNCHANGED <<clientVars, entityVars, logVars, collVars, iterVars>>

NextRequest == Respond \/ Classify \/ NextCall

SpecRequest == InitRequest /\ [][NextRequest]_vars

Is4xx(code) == code \in 400..499
Is5xx(code) == code \in 500..599

\* C4: every 4xx response raises ValidationError and every 5xx response
\* raises ServerError, each carrying the response's status code and raw body,
\* whatever the method, the stream flag and the expect-JSON flag.
StatusClassification ==
    result # Pending =>
        /\ Is4xx(resp.status_code) =>
              result = Raise("ValidationError", resp.status_code, resp.content)
        /\ Is5xx(resp.status_code) =>
              result = Raise("ServerError", resp.status_code, resp.content)

\* A streamed DELETE answered 502 has been classified, and a 404 too.
StatusClassificationWitness ==
    /\ result # Pending
    /\ call.method = "delete" /\ call.stream /\ ~call.expect_json_response
    /\ resp.status_code = 502 /\ resp.content = "<html>"
    /\ result.exc = "ServerError"

\* C5 as stated: for a response that is neither 4xx nor 5xx, DELETE or 204
\* gives None first, then a streaming request gives the response handle, then
\* an expected JSON body is parsed or ValidationError(status) is raised.
DeleteBeforeStream ==
    (result # Pending /\ ~Is4xx(resp.status_code) /\ ~Is5xx(resp.status_code)) =>
        IF call.method = "delete" \/ resp.status_code = NO_CONTENT
          THEN result = Return("None", "")
        ELSE IF call.stream
          THEN result = Return("response", resp.content)
        ELSE IF call.expect_json_response
          THEN IF resp.content_type = "application/json" /\ IsJson(resp.content)
                 THEN result = Return("json", resp.content)
                 ELSE /\ result.kind = "raise"
                      /\ result.exc = "ValidationError"
                      /\ result.code = resp.status_code
        ELSE result.kind = "return"

\* C5 amended: the streaming request is decided first (it gets the response
\* handle even for DELETE and for 204), then DELETE or 204 gives None, then
\* the JSON rules apply.
StreamBeforeDelete ==
    (result # Pending /\ ~Is4xx(resp.status_code) /\ ~Is5xx(resp.status_code)) =>
        IF call.stream
          THEN result = Return("response", resp.content)
        ELSE IF call.method = "delete" \/ resp.status_code = NO_CONTENT
          THEN result = Return("None", "")
        ELSE IF call.expect_json_response
          THEN IF resp.content_type = "application/json" /\ IsJson(resp.content)
                 THEN result = Return("json", resp.content)
                 ELSE /\ result.kind = "raise"
                      /\ result.exc = "ValidationError"
                      /\ result.code = resp.status_code
        ELSE result = Return("content", resp.content)

\* A streamed DELETE answered 204 returned the response handle.
StreamBeforeDeleteWitness ==
    /\ result # Pending
    /\ call.method = "delete" /\ call.stream
    /\ resp.status_code = NO_CONTENT
    /\ result.value = "response"

-----------------------------------------------------------------------------
(* SpecEntity: one entity, its server and the operations of the caller *)

MaxRequests == 3

\* The names the caller reads: the keys of the payload, the related views
\* and two names that exist nowhere.
Names(cls) ==
    {"id", "url", "name", ClassKey(cls), "no_such_attribute", "no_such_attribute2"}

NameArgs == {PyNone, PyStr(""), PyStr("b")}
DescriptionArgs == {PyNone, PyStr("d")}
GroupIdArgs ==
    {PyInt("7"), PyTrue, PyStr("test_check_conflicts"), PyStr("7"), PyNone}
IdArgs == {PyInt("7"), PyStr("test_check_conflicts")}

\* A key of the payload the entity was wrapped from that the payload of the
\* entity's own url does not hold.
LocalKey == "href"

\* The entity is wrapped from {id, url} alone, from the whole payload, or
\* from a payload with a key more than the server's.
InitEntity ==
    /\ \E cls \in Classes :
        /\ server = [exists |-> TRUE, fields |-> ServerFields(cls)]
        /\ \E keys \in {{"id", "url"}, DOMAIN ServerFields(cls),
                         {"id", "url", LocalKey}} :
              entity = NewEntity(cls,
                          [k \in keys |-> IF k = LocalKey THEN PyStr("#")
                                          ELSE ServerFields(cls)[k]])
    /\ LogIdle /\ TransportIdle /\ CollIdle /\ IterIdle

\* The step of the caller's operation op that did t.
Operation(op, item, data, t) ==
    /\ requests + Len(t.sent) <= MaxRequests
    /\ entity' = t.e
    /\ server' = t.s
    /\ requests' = requests + Len(t.sent)
    /\ outcome' = [op |-> op, target |-> 0, item |-> item, data |-> data,
                   kind |-> t.out.kind,
                   exc |-> t.out.exc, code |-> t.out.code,
                   value |-> t.out.value, sent |-> t.sent,
                   answers |-> t.answers]
    /\ UNCHANGED <<transportVars, collVars, iterVars>>

GetAttr ==
    \E item \in Names(entity.cls), st \in EntityStatuses(server) :
        Operation("getattr", item, EmptyDict, getattr(entity, server, item, st))

Load ==
    \E st \in EntityStatuses(server) :
        Operation("load", "", EmptyDict, load(entity, server, st))

Update ==
    /\ entity.cls = "DeploymentGroup"
    /\ \E name \in NameArgs \ {PyNone}, description \in DescriptionArgs,
          st \in EntityStatuses(server) :
        Operation("update", "",
                  ("name" :> name) @@ ("description" :> description),
                  update(entity, server, name, description, st))

PartialUpdate ==
    /\ entity.cls = "DeploymentGroup"
    /\ \E name \in NameArgs, description \in DescriptionArgs,
          st \in EntityStatuses(server) :
        Operation("partial_update", "",
                  ("name" :> name) @@ ("description" :> description),
                  partial_update(entity, server, name, description, st))

Delete ==
    \E st \in EntityStatuses(server) :
        Operation("delete", "", EmptyDict,
                  IF entity.cls = "Endpoint"
                    THEN endpoint_delete(entity, server, st)
                    ELSE delete(entity, server, st))

AddToGroup ==
    /\ entity.cls = "Breadcrumb"
    /\ \E id \in GroupIdArgs, st1 \in EntityStatuses(server) :
        \E st2 \in EntityStatuses(RoundTrip(server,
                        Request("post", "", EmptyDict), st1).s) :
            Operation("add_to_group", "", "deployment_group_id" :> id,
                      add_to_group(entity, server, id, st1, st2))

\* remove_from_group, connect_to_service, detach_from_service on a
\* breadcrumb; connect_to_decoy, detach_from_decoy on a service.
PostId ==
    \E method \in IdMethods(entity.cls), id \in IdArgs,
       st1 \in EntityStatuses(server) :
        \E st2 \in EntityStatuses(RoundTrip(server,
                        Request("post", "", EmptyDict), st1).s) :
            Operation(method, "", IdParam(method) :> id,
                      post_id(entity, server, method, IdParam(method), id,
                              st1, st2))

\* breadcrumb.update(name)
BreadcrumbUpdate ==
    /\ entity.cls = "Breadcrumb"
    /\ \E name \in NameArgs \ {PyNone, PyStr("")},
          st0 \in EntityStatuses(server), st \in EntityStatuses(server) :
        Operation("update", "", "name" :> name,
                  breadcrumb_update(entity, server, name, st0, st))

\* entity.partial_update(name=name), as the test of the ssh entities calls it
\* on a deployment group, a breadcrumb and a service.
CallPartialUpdate ==
    /\ entity.cls \in {"DeploymentGroup", "Breadcrumb", "Service"}
    /\ \E name \in NameArgs \ {PyNone, PyStr("")}, st \in EntityStatuses(server) :
        Operation("call", "partial_update", "name" :> name,
                  call_partial_update(entity, server, name, st))

\* Someone else changes the entity on the server.
ServerChange ==
    /\ server.exists
    /\ \E k \in {"name", ClassKey(entity.cls)} :
        \E v \in FieldValues(k) \ {server.fields[k]} :
            server' = [server EXCEPT !.fields[k] = v]
    /\ outcome' = NoOutcome
    /\ UNCHANGED <<entity, requests, transportVars, collVars, iterVars>>

NextEntity ==
    \/ GetAttr
    \/ Load
    \/ Update
    \/ PartialUpdate
    \/ Delete
    \/ AddToGroup
    \/ PostId
    \/ BreadcrumbUpdate
    \/ CallPartialUpdate
    \/ ServerChange

SpecEntity == InitEntity /\ [][NextEntity]_vars

-----------------------------------------------------------------------------
(* The operations on collections, shared by SpecFilter and SpecIter *)

MaxColls == 2

\* The step of an operation on the instance a.
CollOutcome(op, a, kwargs, res, value, sent, answers) ==
    outcome' = [op |-> op, target |-> a, item |-> "", data |-> kwargs,
                kind |-> res.kind, exc |-> res.exc, code |-> res.code,
                value |-> value, sent |-> sent, answers |-> answers]

\* The keyword arguments a caller may pass: any of the names of choices,
\* each with one of its values.
Kwargs(choices) ==
    UNION {{f \in [S -> UNION {choices[k] : k \in S}] :
                \A k \in S : f[k] \in choices[k]} :
           S \in SUBSET DOMAIN choices}

FilterArgs(cls) ==
    CASE cls = "AlertCollection" ->
            Kwargs([filter_enabled |-> {PyTrue},
                    alert_types |-> {PyList("['share', 'http']")},
                    username |-> {PyStr("admin")}])
      [] cls = "EndpointCollection" ->
            Kwargs([keywords |-> {PyStr("hr_workstation_")}])
      [] cls = "BackgroundTaskCollection" ->
            Kwargs([running |-> {PyFalse}])
      [] OTHER ->
            Kwargs([filter_enabled |-> {PyFalse},
                    username |-> {PyList("['admin']"), PyStr("admin")}])

\* client.alerts, client.endpoints, ...: a new instance with no filter.
\* A generator that has returned or raised is dropped when the caller goes
\* on to something else; one that is suspended at a yield is kept.
DropFinished == iter' = IF iter.pc = "chunk" THEN iter ELSE NoIter

TopLevel ==
    /\ Len(colls) < MaxColls
    /\ iter.pc # "chunk"
    /\ \E cls \in {c.cls : c \in {colls[i] : i \in DOMAIN colls}} :
        /\ colls' = Append(colls, NewCollection(cls, EmptyDict))
        /\ born' = Append(born,
                [params |-> get_query_params(NewCollection(cls, EmptyDict)),
                 via |-> "client", parent |-> 0, kwargs |-> EmptyDict])
        /\ CollOutcome("client", 0, EmptyDict, Returned(PyNone),
                       [type |-> cls, repr |-> ToString(Len(colls) + 1)],
                       <<>>, <<>>)
    /\ DropFinished
    /\ UNCHANGED <<transportVars, entityVars, requests, items, pageSize>>

\* a.filter(**kwargs)
Filter ==
    /\ Len(colls) < MaxColls
    /\ \E a \in DOMAIN colls :
        /\ colls[a].cls \in FilterableClasses
        /\ \E kwargs \in FilterArgs(colls[a].cls) :
            /\ colls' = apply_filter(colls, a, kwargs)
            /\ IF filter(colls[a], kwargs).raises
                 THEN /\ born' = born
                      /\ CollOutcome("filter", a, kwargs,
                                     Raised("BadParamError", 0), PyNone,
                                     <<>>, <<>>)
                 ELSE /\ born' = Append(born,
                            [params |-> get_query_params(colls'[Len(colls')]),
                             via |-> "filter", parent |-> a, kwargs |-> kwargs])
                      /\ CollOutcome("filter", a, kwargs, Returned(PyNone),
                                     [type |-> colls[a].cls,
                                      repr |-> ToString(Len(colls'))],
                                     <<>>, <<>>)
    /\ DropFinished
    /\ UNCHANGED <<transportVars, entityVars, requests, items, pageSize>>

\* len(a): one GET, the count of the envelope.
Length ==
    /\ iter.pc # "chunk"
    /\ \E a \in DOMAIN colls, st \in {200, 500} :
        LET q == PrepareRequest("get", Url(get_url(colls[a].cls), <<>>),
                                get_query_params(colls[a]))
        IN  /\ CollOutcome("len", a, EmptyDict, Fetch(st),
                           IF st = 200
                             THEN PyInt(ToString(ServePage(items, pageSize, q).count))
                             ELSE PyNone,
                           <<q>>, <<st>>)
            /\ DropFinished
            /\ UNCHANGED <<transportVars, entityVars, requests, collVars,
                           items, pageSize>>

\* a.get_item(id): one GET of the url of the collection with the id appended.
GetItem ==
    /\ iter.pc # "chunk"
    /\ \E a \in DOMAIN colls, id \in {1} :
        \E st \in (IF \E i \in DOMAIN items : items[i] = id
                     THEN {200, 500} ELSE {404, 500}) :
            LET q == PrepareRequest("get",
                        Url(get_url(colls[a].cls) \o ToString(id) \o "/", <<>>),
                        get_query_params(colls[a]))
            IN  /\ CollOutcome("get_item", a, EmptyDict, Fetch(st),
                               IF st = 200
                                 THEN [type |-> "Entity", repr |-> ToString(id)]
                                 ELSE PyNone,
                               <<q>>, <<st>>)
                /\ DropFinished
            /\ UNCHANGED <<transportVars, entityVars, requests, collVars,
                           items, pageSize>>

\* iter(a) and the first step of the new generator: the first page is
\* fetched.  The step notes the state in which it found the generator of the
\* iteration before.
StartIteration ==
    \E a \in DOMAIN colls, st \in {200, 400, 500} :
        LET q == first_page(colls[a])
            page == ServePage(items, pageSize, q)
        IN  /\ iter' = IF Fetch(st).kind = "raise"
                         THEN iter_chunks_raised(
                                [NoIter EXCEPT !.coll = a,
                                    !.query_params = get_query_params(colls[a])])
                         ELSE [pc |-> "chunk", coll |-> a,
                               query_params |-> get_query_params(colls[a]),
                               next |-> page.next, chunk |-> page.results,
                               yielded |-> <<>>, pages |-> 1, dirty |-> FALSE]
            /\ outcome' = [op |-> "iter", target |-> a, item |-> iter.pc,
                           data |-> EmptyDict, kind |-> Fetch(st).kind,
                           exc |-> Fetch(st).exc, code |-> Fetch(st).code,
                           value |-> PyNone, sent |-> <<q>>, answers |-> <<st>>]
            /\ UNCHANGED <<transportVars, entityVars, requests, collVars,
                           items, pageSize>>

\* A new iteration when none is under way, and one that abandons the
\* iteration under way.
IterStart == iter.pc # "chunk" /\ StartIteration

IterRestart == iter.pc = "chunk" /\ StartIteration

\* The generator yields the next object of the chunk.
IterYield ==
    /\ iter.pc = "chunk"
    /\ iter.chunk # <<>>
    /\ iter' = [iter EXCEPT !.chunk = Tail(@),
                            !.yielded = Append(@, Head(iter.chunk))]
    /\ CollOutcome("yield", iter.coll, EmptyDict, Returned(PyNone),
                   [type |-> "Entity", repr |-> ToString(Head(iter.chunk))],
                   <<>>, <<>>)
    /\ UNCHANGED <<transportVars, entityVars, requests, collVars, items, pageSize>>

\* The chunk is used up and the response named a next page: it is fetched.
IterNextPage ==
    /\ iter.pc = "chunk"
    /\ iter.chunk = <<>>
    /\ has_next(iter)
    /\ \E st \in {200, 400, 500} :
        LET q == next_page(iter)
            page == ServePage(items, pageSize, q)
        IN  /\ iter' = IF Fetch(st).kind = "raise"
                         THEN iter_chunks_raised(iter)
                         ELSE [iter EXCEPT !.next = page.next,
                                           !.chunk = page.results,
                                           !.pages = @ + 1]
            /\ CollOutcome("next_page", iter.coll, EmptyDict, Fetch(st), PyNone,
                           <<q>>, <<st>>)
            /\ UNCHANGED <<transportVars, entityVars, requests, collVars,
                           items, pageSize>>

\* The chunk is used up and the response named no next page: the generator
\* returns.
IterEnd ==
    /\ iter.pc = "chunk"
    /\ iter.chunk = <<>>
    /\ ~has_next(iter)
    /\ iter' = [iter EXCEPT !.pc = "done"]
    /\ CollOutcome("stop", iter.coll, EmptyDict, Returned(PyNone), PyNone, <<>>, <<>>)
    /\ UNCHANGED <<transportVars, entityVars, requests, collVars, items, pageSize>>

-----------------------------------------------------------------------------
(* SpecFilter: the instances of one filterable class, made by the client    *)
(* and by filter, and the requests made through them                        *)

\* The caller holds one instance: client.alerts (or endpoints, ...), or what
\* filter returned on it.
InitFilter ==
    /\ \E cls \in FilterableClasses :
        \/ /\ colls = <<NewCollection(cls, EmptyDict)>>
           /\ born = <<[params |-> get_query_params(colls[1]),
                        via |-> "client", parent |-> 0, kwargs |-> EmptyDict]>>
        \/ \E kwargs \in FilterArgs(cls) :
              /\ ~filter(NewCollection(cls, EmptyDict), kwargs).raises
              /\ colls = <<filter(NewCollection(cls, EmptyDict), kwargs).new>>
              /\ born = <<[params |-> get_query_params(colls[1]),
                           via |-> "filter", parent |-> 0, kwargs |-> kwargs]>>
    /\ items = <<1, 2>>
    /\ pageSize = 1
    /\ iter = NoIter
    /\ requests = 0 /\ outcome = NoOutcome
    /\ TransportIdle /\ EntityIdle

NextFilter ==
    \/ TopLevel
    \/ Filter
    \/ Length
    \/ GetItem
    \/ IterStart
    \/ IterYield
    \/ IterNextPage
    \/ IterEnd

SpecFilter == InitFilter /\ [][NextFilter]_vars

-----------------------------------------------------------------------------
(* The claims about entities *)

\* The reload request of the entity.
ReloadRequest == Request("get", entity.dict["url"].repr, EmptyDict)

\* The step is an access to the attribute item.
Accessed(item) == outcome'.op = "getattr" /\ outcome'.item = item

\* C2: on an entity wrapped from {id, url} alone, the first access to a field
\* of the server's payload sends exactly one GET to the entity's url and
\* returns the server's value, and an access to a field that the mapping
\* already holds sends nothing.
FirstAccessFetchesOnce ==
    [][\A item \in DOMAIN server.fields :
          Accessed(item) =>
            IF item \in DOMAIN entity.dict
              THEN /\ outcome'.sent = <<>>
                   /\ outcome'.value.repr = entity.dict[item].repr
              ELSE DOMAIN entity.dict = {"id", "url"} =>
                      /\ outcome'.sent = <<ReloadRequest>>
                      /\ outcome'.answers = <<200>> =>
                            /\ outcome'.kind = "return"
                            /\ outcome'.value.repr = server.fields[item].repr
                            /\ DOMAIN server.fields \subseteq DOMAIN entity'.dict
      ]_vars

\* C3: an access to a name that is neither held locally nor in the server's
\* payload sends exactly one reload GET, and raises AttributeError when the
\* server answers it; every such access adds one request, whether or not
\* the same name missed before.
MissReloadsEveryTime ==
    [][\A item \in Names(entity.cls) \ DOMAIN server.fields :
          (Accessed(item) /\ item \notin DOMAIN entity.dict \cup DOMAIN entity.attrs) =>
              /\ outcome'.sent = <<ReloadRequest>>
              /\ requests' = requests + 1
              /\ outcome'.answers = <<200>> =>
                    /\ outcome'.kind = "raise"
                    /\ outcome'.exc = "AttributeError"
                    /\ item \notin DOMAIN entity'.dict
      ]_vars

\* Two misses happened on an entity that was already loaded: the second
\* one reloaded again and raised AttributeError.
MissReloadsEveryTimeWitness ==
    /\ outcome.op = "getattr" /\ outcome.item = "no_such_attribute2"
    /\ outcome.exc = "AttributeError"
    /\ Len(outcome.sent) = 1
    /\ requests = 3
    /\ "name" \in DOMAIN entity.dict

\* C6: partial_update sends one PATCH to the entity's url whose body holds
\* exactly the supplied fields with truthy values; when no supplied value is
\* truthy it sends nothing and leaves the entity as it was.
PartialUpdateSendsTruthy ==
    [][outcome'.op = "partial_update" =>
          LET data == outcome'.data
              truthy == {k \in DOMAIN data : data[k] \notin {PyNone, PyStr("")}}
          IN  IF truthy = {}
                THEN /\ outcome'.sent = <<>>
                     /\ requests' = requests
                     /\ entity' = entity
                ELSE outcome'.sent =
                        <<Request("patch", entity.dict["url"].repr,
                                  [k \in truthy |-> data[k]])>>
      ]_vars

\* partial_update(name="b", description=None) sent its PATCH.
PartialUpdateSendsTruthyWitness ==
    /\ outcome.op = "partial_update"
    /\ outcome.data["name"] = PyStr("b")
    /\ outcome.data["description"] = PyNone
    /\ Len(outcome.sent) = 1
    /\ outcome.sent[1].data = ("name" :> PyStr("b"))

\* C10: add_to_group with a deployment_group_id that is not a number raises
\* BadParamError, sends neither the POST nor the reload GET, and leaves the
\* breadcrumb as it was.
NonNumericGroupRejected ==
    [][(/\ outcome'.op = "add_to_group"
        /\ outcome'.data["deployment_group_id"].type \in {"str", "NoneType"}) =>
            /\ outcome'.kind = "raise"
            /\ outcome'.exc = "BadParamError"
            /\ outcome'.sent = <<>>
            /\ requests' = requests
            /\ entity' = entity
            /\ server' = server
      ]_vars

\* add_to_group('test_check_conflicts') was called and raised.
NonNumericGroupRejectedWitness ==
    /\ outcome.op = "add_to_group"
    /\ outcome.data["deployment_group_id"] = PyStr("test_check_conflicts")
    /\ outcome.exc = "BadParamError"
    /\ entity.cls = "Breadcrumb"

-----------------------------------------------------------------------------
(* The claims about filter *)

\* C7: filter on an instance A returns another instance and leaves A as it
\* was: no step changes an existing instance, and every later len, get_item
\* and iteration on A sends the query parameters A had when it was created.
FilterLeavesReceiver ==
    [][/\ \A i \in DOMAIN colls : i \in DOMAIN colls' /\ colls'[i] = colls[i]
       /\ (outcome'.op = "filter" /\ outcome'.kind = "return") =>
            /\ Len(colls') = Len(colls) + 1
            /\ outcome'.value.repr = ToString(Len(colls'))
            /\ outcome'.value.repr # ToString(outcome'.target)
       /\ outcome'.op \in {"len", "get_item", "iter"} =>
            outcome'.sent[1].params = born[outcome'.target].params
       /\ outcome'.op = "next_page" =>
            \A k \in DOMAIN born[outcome'.target].params :
                outcome'.sent[1].params[k] = born[outcome'.target].params[k]
      ]_vars

\* filter on the first instance returned a second one with other query
\* parameters, and then len of the first sent the parameters of the first.
FilterLeavesReceiverWitness ==
    /\ Len(colls) >= 2
    /\ born[2].via = "filter" /\ born[2].parent = 1
    /\ born[2].params # born[1].params
    /\ outcome.op = "len" /\ outcome.target = 1
    /\ outcome.sent[1].params = born[1].params

\* The value of an attribute that says that no filter is set on it.
Unset(v) == v \in {PyNone, PyFalse, PyStr("")}

\* C8 as stated: the collection filter returns carries the merged state:
\* every filter set on the receiver that the call does not override is
\* still set, with the same value, on the returned collection.
FilterMergesState ==
    \A b \in DOMAIN colls :
        (born[b].via = "filter" /\ born[b].parent # 0) =>
            \A f \in DOMAIN colls[born[b].parent].attrs \ DOMAIN born[b].kwargs :
                (f # "filter_enabled" /\ ~Unset(colls[born[b].parent].attrs[f])) =>
                    colls[b].attrs[f] = colls[born[b].parent].attrs[f]

\* What filter gives an attribute that the call does not mention.
FilterDefault(cls, f) ==
    CASE f = "filter_enabled" ->
            IF cls = "AlertCollection" THEN PyFalse ELSE PyTrue
      [] f = "only_alerts" -> PyFalse
      [] f = "running" -> PyTrue
      [] f = "alert_types" -> PyStr("")
      [] f = "keywords" /\ cls = "EndpointCollection" -> PyStr("")
      [] OTHER -> PyNone

\* C8 amended: the collection filter returns carries the state of the call
\* alone: each attribute is the argument given for it (the list of alert
\* types joined by spaces), or the default of filter when the call does not
\* give it, whatever the receiver holds.
FilterBuildsFromArguments ==
    \A b \in DOMAIN colls :
        born[b].via = "filter" =>
            \A f \in DOMAIN colls[b].attrs :
                colls[b].attrs[f] =
                    IF f \in DOMAIN born[b].kwargs
                      THEN IF f = "alert_types"
                             THEN PyStr("share http")
                             ELSE born[b].kwargs[f]
                      ELSE FilterDefault(colls[b].cls, f)

\* filter(alert_types=[...]) on alerts filtered by username returned a
\* collection with no username filter.
FilterBuildsFromArgumentsWitness ==
    /\ Len(colls) >= 2
    /\ born[2].via = "filter" /\ born[2].parent = 1
    /\ colls[1].cls = "AlertCollection"
    /\ colls[1].attrs["username"] = PyStr("admin")
    /\ DOMAIN born[2].kwargs = {"alert_types"}
    /\ colls[2].attrs["username"] = PyNone
    /\ colls[2].attrs["alert_types"] = PyStr("share http")

\* The instance sends filter_enabled true.
Filtered(b) ==
    /\ "filter_enabled" \in DOMAIN get_query_params(colls[b])
    /\ get_query_params(colls[b])["filter_enabled"] = PyTrue

-----------------------------------------------------------------------------
(* SpecIter: one collection iterated page by page against a server that     *)
(* holds N items and serves them in pages of P                              *)

MaxItems == 3
MaxPageSize == 2

\* The instances a caller iterates: a collection of the client, or what
\* filter returned on it.
Iterables ==
    {NewCollection(cls, EmptyDict) : cls \in CollectionClasses}
    \cup {filter(NewCollection(cls, EmptyDict), kwargs).new :
            cls \in {"AlertCollection"}, kwargs \in FilterArgs("AlertCollection")}

InitIter ==
    /\ \E c \in Iterables :
        /\ colls = <<c>>
        /\ born = <<[params |-> get_query_params(c), via |-> "client",
                     parent |-> 0, kwargs |-> EmptyDict]>>
    /\ \E n \in 0..MaxItems : items = [i \in 1..n |-> i]
    /\ pageSize \in 1..MaxPageSize
    /\ iter = NoIter
    /\ requests = 0 /\ outcome = NoOutcome
    /\ TransportIdle /\ EntityIdle

\* The data set of the server grows by one item: it is no longer the data
\* set that the iteration under way, or the one that has ended, began with.
ItemsChange ==
    /\ Len(items) < MaxItems
    /\ items' = Append(items, Len(items) + 1)
    /\ iter' = IF iter.pc \in {"chunk", "done"}
               THEN [iter EXCEPT !.dirty = TRUE] ELSE iter
    /\ outcome' = NoOutcome
    /\ UNCHANGED <<transportVars, entityVars, requests, collVars, pageSize>>

NextIter ==
    \/ Length
    \/ IterStart
    \/ IterYield
    \/ IterNextPage
    \/ IterEnd
    \/ IterRestart
    \/ ItemsChange

SpecIter == InitIter /\ [][NextIter]_vars

\* s is the first Len(s) elements of t.
IsPrefix(s, t) == Len(s) <= Len(t) /\ s = SubSeq(t, 1, Len(s))

\* C1: against a data set of N items that has not changed since the
\* iteration began, served in pages of P, what the iteration has yielded and
\* holds in its chunk is always the first min(k * P, N) items in order after
\* k pages; a next page is left exactly when items are left; and the
\* iteration that has ended has yielded the N items, each once, in order.
IterationYieldsAll ==
    (iter.pc \in {"chunk", "done"} /\ ~iter.dirty) =>
        /\ IsPrefix(iter.yielded \o iter.chunk, items)
        /\ Len(iter.yielded) + Len(iter.chunk) = Min(iter.pages * pageSize, Len(items))
        /\ (iter.next # NoUrl) <=> (Len(iter.yielded) + Len(iter.chunk) < Len(items))
        /\ iter.pc = "done" =>
              /\ iter.yielded = items
              /\ iter.chunk = <<>>
              /\ \A i, j \in DOMAIN iter.yielded :
                    iter.yielded[i] = iter.yielded[j] => i = j

\* An iteration over N = P + 1 items has ended after two pages with all of
\* them yielded.
IterationYieldsAllWitness ==
    /\ iter.pc = "done" /\ ~iter.dirty
    /\ pageSize = 2
    /\ Len(items) = pageSize + 1
    /\ iter.pages = 2
    /\ iter.yielded = items

-----------------------------------------------------------------------------
(* SpecCrud: a deployment group is created through its collection, fetched  *)
(* by id, updated and deleted                                               *)

\* The class of the members of the collection (MODEL_CLASS).
ModelClass(cls) ==
    IF cls = "DeploymentGroupCollection" THEN "DeploymentGroup" ELSE "Breadcrumb"

\* The body with which the server answers the POST that creates an entity:
\* the data, the id 1 and the url of the entity.
CreateResponse(cls, data) ==
    DictUpdate(data, ("id" :> PyInt("1"))
                     @@ ("url" :> PyStr(get_url(cls) \o "1/")))

\* A field the server computes for the entity it creates, which the body
\* of the answer to the POST does not hold.
ServerDefault == "is_active"

\* The server creates the entity from the data of the POST, with id 1.
ServerCreate(cls, data) ==
    [exists |-> TRUE,
     fields |-> CreateResponse(cls, data) @@ (ServerDefault :> PyTrue)]

\* EditableCollection.create_item: the POST to the url of the collection,
\* the entity wrapped from the response, and its load.
create_item_unloaded(cls, s, data, st1, st2) ==
    LET q == Request("post", get_url(cls), data)
        s1 == IF st1 = 200 THEN ServerCreate(cls, data) ELSE s
        r == api_request([method |-> "post", stream |-> FALSE,
                          expect_json_response |-> TRUE],
                         ServerResponse(s1, st1))
    IN  IF r.kind = "raise"
          THEN Done(NoEntity, s1, <<q>>, <<st1>>, Raised(r.exc, r.code))
          ELSE Done(NewEntity(ModelClass(cls), CreateResponse(cls, data)), s1,
                    <<q>>, <<st1>>, Returned(Self))

create_item(cls, s, data, st1, st2) ==
    LET q == Request("post", get_url(cls), data)
        s1 == IF st1 = 200 THEN ServerCreate(cls, data) ELSE s
        r == api_request([method |-> "post", stream |-> FALSE,
                          expect_json_response |-> TRUE],
                         ServerResponse(s1, st1))
        l == load(NewEntity(ModelClass(cls), CreateResponse(cls, data)), s1, st2)
    IN  IF r.kind = "raise"
          THEN Done(NoEntity, s1, <<q>>, <<st1>>, Raised(r.exc, r.code))
          ELSE Done(IF l.out.kind = "raise" THEN NoEntity ELSE l.e, l.s,
                    <<q>> \o l.sent, <<st1>> \o l.answers, l.out)

\* DeploymentGroupCollection.create
create(cls, s, name, description, st1, st2) ==
    create_item(cls, s, ("name" :> name) @@ ("description" :> description),
                st1, st2)

\* Collection.get_item
get_item_by_param(c, s, id, st) ==
    LET q == PrepareRequest("get", Url(get_url(c.cls), <<>>),
                            DictUpdate(get_query_params(c), "id" :> PyInt(id)))
        t == RoundTrip(s, q, st)
    IN  IF t.res.kind = "raise"
          THEN Done(NoEntity, t.s, <<q>>, <<st>>, Raised(t.res.exc, t.res.code))
          ELSE Done(NewEntity(ModelClass(c.cls), t.json), t.s, <<q>>, <<st>>,
                    Returned([type |-> "Entity", repr |-> id]))

get_item(c, s, id, st) ==
    LET q == PrepareRequest("get", Url(get_url(c.cls) \o id \o "/", <<>>),
                            get_query_params(c))
        t == RoundTrip(s, q, st)
    IN  IF t.res.kind = "raise"
          THEN Done(NoEntity, t.s, <<q>>, <<st>>, Raised(t.res.exc, t.res.code))
          ELSE Done(NewEntity(ModelClass(c.cls), t.json), t.s, <<q>>, <<st>>,
                    Returned([type |-> "Entity", repr |-> id]))

\* The names and descriptions the caller gives a deployment group.
CrudNames == {PyStr("test_check_conflicts"), PyStr("test_check_conflicts1")}
CrudDescriptions == {PyNone, PyStr("pretty dg")}

\* The ids the caller asks for: the one the server gave, and another.
ItemIds == {"1", "2"}

\* The statuses with which the server answers the GET of the item id.
ItemStatuses(s, id) == IF s.exists /\ id = "1" THEN {200, 500} ELSE {404, 500}

InitCrud ==
    /\ colls = <<NewCollection("DeploymentGroupCollection", EmptyDict)>>
    /\ born = <<[params |-> EmptyDict, via |-> "client", parent |-> 0,
                 kwargs |-> EmptyDict]>>
    /\ entity = NoEntity
    /\ server = NoServer
    /\ LogIdle /\ TransportIdle /\ IterIdle

\* The step of the operation op that did t.  The caller keeps the entity
\* that the operation returned, and the one it had when it returned none.
CrudStep(op, item, data, t) ==
    /\ entity' = IF t.e = NoEntity THEN entity ELSE t.e
    /\ server' = t.s
    /\ outcome' = [op |-> op, target |-> 1, item |-> item, data |-> data,
                   kind |-> t.out.kind, exc |-> t.out.exc, code |-> t.out.code,
                   value |-> t.out.value, sent |-> t.sent, answers |-> t.answers]
    /\ UNCHANGED <<requests, transportVars, collVars, iterVars>>

\* deployment_groups.create(name, description), once.
CrudCreate ==
    /\ server = NoServer
    /\ \E name \in CrudNames, description \in CrudDescriptions,
          st1 \in {200, 400, 500}, st2 \in {200, 500} :
        CrudStep("create", "",
                 ("name" :> name) @@ ("description" :> description),
                 create(colls[1].cls, server, name, description, st1, st2))

\* deployment_groups.get_item(id)
CrudGetItem ==
    \E id \in ItemIds :
        \E st \in ItemStatuses(server, id) :
            CrudStep("get_item", id, EmptyDict, get_item(colls[1], server, id, st))

\* dep_group.update(name, description)
CrudUpdate ==
    /\ entity # NoEntity
    /\ \E name \in CrudNames, description \in CrudDescriptions,
          st \in EntityStatuses(server) :
        CrudStep("update", "",
                 ("name" :> name) @@ ("description" :> description),
                 update(entity, server, name, description, st))

\* dep_group.delete()
CrudDelete ==
    /\ entity # NoEntity
    /\ \E st \in EntityStatuses(server) :
        CrudStep("delete", "", EmptyDict, delete(entity, server, st))

NextCrud ==
    \/ CrudCreate
    \/ CrudGetItem
    \/ CrudUpdate
    \/ CrudDelete

SpecCrud == InitCrud /\ [][NextCrud]_vars

\* The last operation was answered by the server with no 5xx status.
Answered(o) == \A i \in DOMAIN o.answers : o.answers[i] < 500

\* C12: get_item(id) sends exactly one GET, to the url of the collection
\* with the id appended; it returns an entity whose fields are those the
\* server holds, which are those of the create or of the last update that
\* succeeded; and it raises ValidationError once the entity is deleted.
GetItemReflectsLifecycle ==
    [][/\ outcome'.op = "get_item" =>
            /\ outcome'.sent =
                  <<[method |-> "get",
                     url |-> "https://mazerunner/api/v1.0/deployment-group/"
                                \o outcome'.item \o "/",
                     params |-> EmptyDict, data |-> EmptyDict]>>
            /\ server' = server
            /\ Answered(outcome') =>
                  IF server.exists /\ outcome'.item = "1"
                    THEN /\ outcome'.kind = "return"
                         /\ entity'.dict = server.fields
                    ELSE /\ outcome'.kind = "raise"
                         /\ outcome'.exc = "ValidationError"
       /\ (outcome'.op \in {"create", "update"} /\ outcome'.kind = "return") =>
            /\ server'.exists
            /\ \A k \in DOMAIN outcome'.data :
                  server'.fields[k] = outcome'.data[k]
       /\ (outcome'.op = "delete" /\ outcome'.kind = "return") => ~server'.exists
      ]_vars

\* get_item raised ValidationError for the id of a group that was created
\* and then deleted.
GetItemReflectsLifecycleWitness ==
    /\ outcome.op = "get_item" /\ outcome.item = "1"
    /\ outcome.exc = "ValidationError" /\ outcome.code = 404
    /\ ~server.exists
    /\ entity # NoEntity
    /\ entity.dict["name"] = PyStr("test_check_conflicts1")
    /\ entity.dict["description"] = PyStr("pretty dg")

\* C23: create sends the POST of the data to the url of the collection; when
\* the POST fails it sends nothing more, returns no entity and creates
\* nothing; otherwise it sends next one GET to the url in the answer to the
\* POST, and when that is answered it returns an entity that holds the fields
\* of the answer to the POST and those of the answer to the GET.
CreateItemPostsThenLoads ==
    [][outcome'.op = "create" =>
          LET cls == colls[1].cls
              posted == CreateResponse(cls, outcome'.data)
          IN  /\ Len(outcome'.sent) >= 1
              /\ outcome'.sent[1] = Request("post", get_url(cls), outcome'.data)
              /\ IF outcome'.answers[1] # 200
                    THEN /\ Len(outcome'.sent) = 1
                         /\ outcome'.kind = "raise"
                         /\ entity' = entity
                         /\ server' = server
                    ELSE /\ Len(outcome'.sent) = 2
                         /\ outcome'.sent[2] =
                               Request("get", posted["url"].repr, EmptyDict)
                         /\ outcome'.answers[2] = 200 =>
                               /\ outcome'.kind = "return"
                               /\ entity'.dict = DictUpdate(posted, server'.fields)
                               /\ DOMAIN posted \cup {ServerDefault}
                                     \subseteq DOMAIN entity'.dict
      ]_vars

\* create returned a group that holds the name of the POST and the field
\* that only the answer to the GET holds.
CreateItemPostsThenLoadsWitness ==
    /\ outcome.op = "create" /\ outcome.kind = "return"
    /\ outcome.answers = <<200, 200>>
    /\ entity.dict["name"] = PyStr("test_check_conflicts")
    /\ entity.dict[ServerDefault] = PyTrue

-----------------------------------------------------------------------------
(* SpecConnect: the caller makes a client, with connect or with APIClient,  *)
(* and makes requests with it                                               *)

\* A url as the caller writes it: its scheme with "://", empty when the url
\* is relative, and the rest of it.
Text(u) == u.scheme \o u.rest

\* url.startswith("http")
StartsWithHttp(u) == u.scheme \in {"http://", "https://"}

\* api_request: a url that doesn't start with http is appended to the base
\* url of the client.
Resolve(c, u) == IF StartsWithHttp(u) THEN Text(u) ELSE c.base_url \o Text(u)

\* The names of the parameters of APIClient.__init__ after self.
InitParams == {"host", "api_key", "api_secret", "certificate"}

\* What a constructor call gives: the client, the requests it sent, the
\* statuses they were answered with, and what it returned or raised.
Made(c, sent, answers, out) ==
    [client |-> c, sent |-> sent, answers |-> answers, out |-> out]

\* APIClient(**kwargs) with the server answering the directory request with
\* status st.  Python raises TypeError when the call gives an argument that
\* __init__ has no parameter for.
APIClient_lazy_directory(kwargs, st) ==
    LET c == [base_url |-> "https://" \o kwargs["host"].repr,
              certificate |-> IF kwargs["certificate"] = PyNone
                                THEN PyFalse ELSE kwargs["certificate"],
              api_urls |-> FALSE]
        q == Request("get", Resolve(c, [scheme |-> "", rest |-> "/api/v1.0/"]),
                     EmptyDict)
    IN  IF ~(DOMAIN kwargs \subseteq InitParams)
          THEN Made(NoClient, <<>>, <<>>, Raised("TypeError", 0))
          ELSE Made([c EXCEPT !.api_urls = Fetch(st).kind # "raise"],
                    <<q>>, <<st>>, Returned(PyNone))

APIClient(kwargs, st) ==
    LET c == [base_url |-> "https://" \o kwargs["host"].repr,
              certificate |-> IF kwargs["certificate"] = PyNone
                                THEN PyFalse ELSE kwargs["certificate"],
              api_urls |-> FALSE]
        q == Request("get", Resolve(c, [scheme |-> "", rest |-> "/api/v1.0/"]),
                     EmptyDict)
    IN  IF ~(DOMAIN kwargs \subseteq InitParams)
          THEN Made(NoClient, <<>>, <<>>, Raised("TypeError", 0))
        ELSE IF Fetch(st).kind = "raise"
          THEN Made(NoClient, <<q>>, <<st>>, Raised(Fetch(st).exc, Fetch(st).code))
          ELSE Made([c EXCEPT !.api_urls = TRUE], <<q>>, <<st>>, Returned(PyNone))

\* mazerunner.connect(ip_address, api_key, api_secret, certificate,
\* use_http=False)
connect(ip_address, api_key, api_secret, certificate, use_http, st) ==
    APIClient(("host" :> ip_address) @@ ("api_key" :> api_key)
              @@ ("api_secret" :> api_secret) @@ ("certificate" :> certificate)
              @@ ("use_http" :> use_http), st)

Hosts == {PyStr("1.2.3.4"), PyStr("mazerunner.local")}
Certificates == {PyNone, PyFalse, PyStr("/path/to/MazeRunner.crt")}
ApiKey == PyStr("my-api-key")
ApiSecret == PyStr("my-api-secret")

\* The urls the caller gives api_request.
CallerUrls ==
    {[scheme |-> "", rest |-> "/api/v1.0/"],
     [scheme |-> "", rest |-> "/api/v1.0/decoy/"],
     [scheme |-> "https://", rest |-> "1.2.3.4/api/v1.0/decoy/8/"],
     [scheme |-> "http://", rest |-> "1.2.3.4/api/v1.0/decoy/8/"]}

InitConnect ==
    /\ client = NoClient
    /\ download = NoDownload
    /\ call = NoCall /\ resp = NoResp /\ result = Pending
    /\ LogIdle /\ EntityIdle /\ CollIdle /\ IterIdle

\* The step of the constructor call that did t: the caller holds the client
\* it returned, and the one it held when it raised.
ClientStep(op, kwargs, t) ==
    /\ client' = IF t.out.kind = "raise" THEN client ELSE t.client
    /\ outcome' = [op |-> op, target |-> 0, item |-> "", data |-> kwargs,
                   kind |-> t.out.kind, exc |-> t.out.exc, code |-> t.out.code,
                   value |-> IF t.out.kind = "raise" THEN PyNone
                             ELSE PyStr(t.client.base_url),
                   sent |-> t.sent, answers |-> t.answers]
    /\ UNCHANGED <<call, resp, result, download, requests, entityVars,
                   collVars, iterVars>>

\* client = mazerunner.connect(host, key, secret, certificate[, use_http])
Connect ==
    /\ \E host \in Hosts, certificate \in Certificates,
          use_http \in {PyFalse, PyTrue}, st \in {200, 400, 500} :
        ClientStep("connect",
                   ("host" :> host) @@ ("certificate" :> certificate)
                   @@ ("use_http" :> use_http),
                   connect(host, ApiKey, ApiSecret, certificate, use_http, st))

\* client = APIClient(host, key, secret, certificate)
Construct ==
    /\ \E host \in Hosts, certificate \in Certificates, st \in {200, 400, 500} :
        ClientStep("APIClient",
                   ("host" :> host) @@ ("certificate" :> certificate),
                   APIClient(("host" :> host) @@ ("api_key" :> ApiKey)
                             @@ ("api_secret" :> ApiSecret)
                             @@ ("certificate" :> certificate), st))

\* client.api_request(url)
ClientRequest ==
    /\ client # NoClient
    /\ \E u \in CallerUrls, st \in {200, 400, 500} :
        /\ outcome' = [op |-> "api_request", target |-> 0, item |-> Text(u),
                       data |-> EmptyDict, kind |-> Fetch(st).kind,
                       exc |-> Fetch(st).exc, code |-> Fetch(st).code,
                       value |-> PyNone,
                       sent |-> <<Request("get", Resolve(client, u), EmptyDict)>>,
                       answers |-> <<st>>]
        /\ UNCHANGED <<client, call, resp, result, download, requests,
                       entityVars, collVars, iterVars>>

NextConnect ==
    \/ Connect
    \/ Construct
    \/ ClientRequest

SpecConnect == InitConnect /\ [][NextConnect]_vars

\* C18: connect gives a client whenever the server answers the directory
\* request, whatever the arguments, and the base url of the client has the
\* scheme http when use_http is true and https otherwise.
ConnectReturnsClient ==
    [][outcome'.op = "connect" =>
          /\ outcome'.exc # "TypeError"
          /\ outcome'.sent # <<>>
          /\ outcome'.answers = <<200>> =>
                /\ outcome'.kind = "return"
                /\ client'.base_url =
                      (IF outcome'.data["use_http"] = PyTrue
                         THEN "http://" ELSE "https://")
                      \o outcome'.data["host"].repr
      ]_vars

\* C27: a constructor call that sends anything sends one request, the GET
\* of /api/v1.0/ on the host; when that is answered with a 4xx or 5xx status
\* the call raises and gives no client; the client it gives otherwise holds
\* the directory; and every other request is made by a client that holds the
\* directory.
DirectoryFetchedFirst ==
    [][/\ (outcome'.op \in {"connect", "APIClient"} /\ outcome'.sent # <<>>) =>
            /\ outcome'.sent =
                  <<Request("get",
                            "https://" \o outcome'.data["host"].repr \o "/api/v1.0/",
                            EmptyDict)>>
            /\ IF outcome'.answers = <<200>>
                  THEN /\ outcome'.kind = "return"
                       /\ client'.api_urls
                  ELSE /\ outcome'.kind = "raise"
                       /\ outcome'.exc \in {"ValidationError", "ServerError"}
                       /\ client' = client
       /\ outcome'.op = "api_request" => client # NoClient /\ client.api_urls
       /\ client' # NoClient => client'.api_urls
      ]_vars

\* The directory request of the first constructor call was answered 500:
\* the call raised ServerError and there is no client.
DirectoryFetchedFirstWitness ==
    /\ outcome.op = "APIClient" /\ outcome.answers = <<500>>
    /\ outcome.exc = "ServerError"
    /\ client = NoClient

-----------------------------------------------------------------------------
(* SpecStub: the attributes of an entity wrapped from part of its payload,  *)
(* the url left out or not, are read                                        *)

\* The depth of calls at which Python gives up a recursion with
\* RuntimeError (sys.getrecursionlimit(), scaled down).
RecursionLimit == 4

\* BaseEntity.__getattr__(item) at the call depth given.  With the url in
\* the mapping it is the lookup above.  Without it, load() evaluates
\* self.url, which is again __getattr__, of "url", two calls deeper: it
\* misses and calls load() again, until Python stops the recursion.
RECURSIVE getattr_at(_, _, _, _, _)
getattr_at(e, s, item, st, depth) ==
    IF item \in DOMAIN e.attrs \/ item \in DOMAIN e.dict \/ "url" \in DOMAIN e.dict
      THEN getattr(e, s, item, st)
    ELSE IF depth + 2 > RecursionLimit
      THEN Done(e, s, <<>>, <<>>, Raised("RuntimeError", 0))
    ELSE getattr_at(e, s, "url", st, depth + 2)

\* BaseEntity.load() called by the caller.
load_at(e, s, st) ==
    IF "url" \in DOMAIN e.dict THEN load(e, s, st)
                               ELSE getattr_at(e, s, "url", st, 1)

\* The keys of the payload the entity is wrapped from: an item of a related
\* collection ({id}, {id, name}), or {id, url}.
StubKeys == {{"id"}, {"id", "name"}, {"id", "url"}}

InitStub ==
    /\ \E cls \in Classes :
        /\ server = [exists |-> TRUE, fields |-> ServerFields(cls)]
        /\ \E keys \in StubKeys :
              entity = NewEntity(cls, [k \in keys |-> ServerFields(cls)[k]])
    /\ LogIdle /\ TransportIdle /\ CollIdle /\ IterIdle

\* entity.item
StubGetAttr ==
    /\ \E item \in Names(entity.cls), st \in EntityStatuses(server) :
        Operation("getattr", item, EmptyDict,
                  getattr_at(entity, server, item, st, 0))

\* entity.load()
StubLoad ==
    /\ \E st \in EntityStatuses(server) :
        Operation("load", "", EmptyDict, load_at(entity, server, st))

NextStub ==
    \/ StubGetAttr
    \/ StubLoad
    \/ ServerChange

SpecStub == InitStub /\ [][NextStub]_vars

\* C29: every attribute access returns the value or raises AttributeError,
\* ValidationError or ServerError, having sent at most one request.
AttributeAccessTerminates ==
    [][outcome'.op = "getattr" =>
          /\ Len(outcome'.sent) <= 1
          /\ \/ outcome'.kind = "return"
             \/ outcome'.exc \in {"AttributeError", "ValidationError", "ServerError"}
      ]_vars

-----------------------------------------------------------------------------
(* SpecDownload: request_and_download, step by step.  The download is its   *)
(* position (pc), the connection of the streamed response, the            *)
(* destination path, the contents of the files, the file handle, the number *)
(* of chunks of the body and the number written so far.                     *)

MaxChunks == 2

\* The call of api_request(url, stream=True, ...) made by
\* request_and_download.
StreamCall == [method |-> "get", stream |-> TRUE, expect_json_response |-> TRUE]

\* data = self.api_request(url, stream=True, query_params=query_params)
\* answered with the status st and a body of n chunks.  On a 4xx or 5xx
\* status api_request reads the whole body into the exception, which gives
\* the connection back; otherwise the response is returned unread, with its
\* connection open.
download_request_opened_first(d, dest, st, n) ==
    LET r == api_request(StreamCall,
                         [status_code |-> st, content_type |-> "application/zip",
                          content |-> ""])
    IN  IF r.kind = "raise"
          THEN [d EXCEPT !.pc = "failed", !.connection = "released",
                         !.dest = dest, !.files[dest] = "empty", !.handle = "none", !.size = n,
                         !.written = 0, !.exc = r.exc]
          ELSE [d EXCEPT !.pc = "streaming", !.connection = "open",
                         !.dest = dest, !.handle = "none", !.size = n,
                         !.written = 0, !.exc = ""]

download_request(d, dest, st, n) ==
    LET r == api_request(StreamCall,
                         [status_code |-> st, content_type |-> "application/zip",
                          content |-> ""])
    IN  IF r.kind = "raise"
          THEN [d EXCEPT !.pc = "failed", !.connection = "released",
                         !.dest = dest, !.handle = "none", !.size = n,
                         !.written = 0, !.exc = r.exc]
          ELSE [d EXCEPT !.pc = "streaming", !.connection = "open",
                         !.dest = dest, !.handle = "none", !.size = n,
                         !.written = 0, !.exc = ""]

\* with open(destination_path, "wb") as f: the file is created or truncated,
\* or open raises IOError and the function is left.
download_open(d, ok) ==
    IF ok THEN [d EXCEPT !.pc = "copying", !.files[d.dest] = "empty",
                         !.handle = "open"]
          ELSE [d EXCEPT !.pc = "failed", !.exc = "IOError"]

\* shutil.copyfileobj(data.raw, f): one chunk is read and written, or the
\* read or the write raises and the with statement closes the file.
download_copy(d, ok) ==
    IF ok THEN [d EXCEPT !.written = @ + 1,
                         !.files[d.dest] =
                            IF d.written + 1 = d.size THEN "complete"
                                                      ELSE "partial"]
          ELSE [d EXCEPT !.pc = "failed", !.handle = "closed", !.exc = "IOError"]

\* copyfileobj reads the end of the body, which gives the connection back,
\* and the with statement closes the file.
download_finish(d) ==
    [d EXCEPT !.pc = "done", !.handle = "closed", !.connection = "released"]

\* The paths the caller downloads to.
DestPaths == {"breadcrumb.zip", "breadcrumb.exe"}

\* The caller holds a client; each destination file is absent or holds an
\* earlier download.
InitDownload ==
    /\ client = [base_url |-> "https://1.2.3.4", certificate |-> PyFalse,
                 api_urls |-> TRUE]
    /\ \E f \in [DestPaths -> {"absent", "complete"}] :
          download = [NoDownload EXCEPT !.files = f]
    /\ call = NoCall /\ resp = NoResp /\ result = Pending
    /\ LogIdle /\ EntityIdle /\ CollIdle /\ IterIdle

DownloadFrame ==
    UNCHANGED <<client, call, resp, result, logVars, entityVars, collVars, iterVars>>

\* client.request_and_download(url, destination_path) is called.
DownloadRequest ==
    /\ download.pc \in {"idle", "done", "failed"}
    /\ \E dest \in DestPaths, st \in {200, 404, 500}, n \in 1..MaxChunks :
          download' = download_request(download, dest, st, n)
    /\ DownloadFrame

DownloadOpen ==
    /\ download.pc = "streaming"
    /\ \E ok \in BOOLEAN : download' = download_open(download, ok)
    /\ DownloadFrame

DownloadCopy ==
    /\ download.pc = "copying"
    /\ download.written < download.size
    /\ \E ok \in BOOLEAN : download' = download_copy(download, ok)
    /\ DownloadFrame

DownloadFinish ==
    /\ download.pc = "copying"
    /\ download.written = download.size
    /\ download' = download_finish(download)
    /\ DownloadFrame

NextDownload ==
    \/ DownloadRequest
    \/ DownloadOpen
    \/ DownloadCopy
    \/ DownloadFinish

SpecDownload == InitDownload /\ [][NextDownload]_vars

\* C19: when request_and_download has returned or raised, the connection of
\* the streamed response is no longer open.
ConnectionReleasedOnExit ==
    download.pc \in {"done", "failed"} => download.connection # "open"

\* C30: when the request of request_and_download is answered with a 4xx or
\* 5xx status the call raises ValidationError or ServerError with every file
\* as it was and no file opened; and a file changes only in a step that
\* follows a response received with success.
FailedDownloadLeavesFile ==
    [][/\ (download.pc \in {"idle", "done", "failed"} /\ download' # download) =>
            /\ download'.files = download.files
            /\ download'.handle = "none"
            /\ download'.pc \in {"failed", "streaming"}
            /\ download'.pc = "failed" =>
                  download'.exc \in {"ValidationError", "ServerError"}
       /\ download'.files # download.files =>
            /\ download.pc \in {"streaming", "copying"}
            /\ download.connection = "open"
      ]_vars

\* The request was answered 500 and the earlier download at the
\* destination is whole.
FailedDownloadLeavesFileWitness ==
    /\ download.pc = "failed" /\ download.exc = "ServerError"
    /\ download.handle = "none"
    /\ download.files[download.dest] = "complete"

-----------------------------------------------------------------------------
(* The claims about the operations of an entity *)

\* The operations that take the id of another entity.
IdOperations ==
    {"add_to_group", "remove_from_group", "connect_to_service",
     "detach_from_service", "connect_to_decoy", "detach_from_decoy"}

\* C11: every operation that takes the id of another entity raises
\* BadParamError on an id that is not a number, and sends nothing.
ForeignKeyIdsChecked ==
    [][(/\ outcome'.op \in IdOperations
        /\ \E k \in DOMAIN outcome'.data :
              outcome'.data[k].type \in {"str", "NoneType"}) =>
            /\ outcome'.kind = "raise"
            /\ outcome'.exc = "BadParamError"
            /\ outcome'.sent = <<>>
      ]_vars

\* C13 as stated: the delete of every entity type sends exactly one
\* request, a DELETE to the url of the entity, and changes nothing of the
\* entity.
DeleteSendsOneDelete ==
    [][outcome'.op = "delete" =>
          /\ outcome'.sent = <<Request("delete", entity.dict["url"].repr, EmptyDict)>>
          /\ entity' = entity
      ]_vars

\* C13 amended: delete sends exactly one request and changes nothing of the
\* entity; the request is a DELETE to the url of the entity, except for an
\* endpoint, where it is a POST to delete_selected/ of the endpoint
\* collection with filter_enabled=true as its query parameter and the id of
\* the endpoint as the one member of selected_endpoints_ids.
DeleteByUrlOrSelection ==
    [][outcome'.op = "delete" =>
          /\ entity' = entity
          /\ requests' = requests + 1
          /\ outcome'.sent =
                IF entity.cls = "Endpoint"
                  THEN <<[method |-> "post",
                          url |-> "https://mazerunner/api/v1.0/endpoint/delete_selected/",
                          params |-> [filter_enabled |->
                                        [type |-> "set", members |-> {"true"}]],
                          data |-> [selected_endpoints_ids |-> PyList("[1]")]]>>
                  ELSE <<[method |-> "delete", url |-> entity.dict["url"].repr,
                          params |-> EmptyDict, data |-> EmptyDict]>>
      ]_vars

\* An endpoint was deleted: the POST was sent and answered.
DeleteByUrlOrSelectionWitness ==
    /\ outcome.op = "delete" /\ outcome.kind = "return"
    /\ entity.cls = "Endpoint"
    /\ Len(outcome.sent) = 1 /\ outcome.sent[1].method = "post"
    /\ ~server.exists

\* The operation ended with a response that the entity merges: the answer
\* 200 to its GET, PUT or PATCH.
Merges(o) ==
    /\ o.sent # <<>>
    /\ o.answers[Len(o.answers)] = 200
    /\ o.sent[Len(o.sent)].method \in {"get", "put", "patch"}

\* The operation merged a response: some GET, PUT or PATCH of it was
\* answered with 200.
MergedSome(o) ==
    \E i \in DOMAIN o.sent :
        o.answers[i] = 200 /\ o.sent[i].method \in {"get", "put", "patch"}

\* C14: no operation removes a key from the field mapping of the entity:
\* a response that is merged overwrites the keys it holds and adds its new
\* ones, every other key keeps its value, and an operation that merges no
\* response leaves the mapping as it was.
FieldsNeverShrink ==
    [][/\ DOMAIN entity.dict \subseteq DOMAIN entity'.dict
       /\ IF MergedSome(outcome') /\ outcome' # outcome
            THEN /\ DOMAIN entity'.dict = DOMAIN entity.dict \cup DOMAIN server'.fields
                 /\ \A k \in DOMAIN entity'.dict :
                        entity'.dict[k] = IF k \in DOMAIN server'.fields
                                            THEN server'.fields[k]
                                            ELSE entity.dict[k]
            ELSE entity'.dict = entity.dict
      ]_vars

\* An update was merged into an entity that holds a key the response lacks,
\* and the key is still there.
FieldsNeverShrinkWitness ==
    /\ outcome.op = "partial_update" /\ Merges(outcome)
    /\ LocalKey \in DOMAIN entity.dict
    /\ LocalKey \notin DOMAIN server.fields
    /\ entity.dict["name"] = PyStr("b")
    /\ "description" \in DOMAIN entity.dict

\* The related views of the entity e are those of its field mapping: each
\* related collection shows the list under its key (no item when the key is
\* absent), and each related field wraps the value under its key, or is not
\* set when the value is null.
ViewsReflectFields(e) ==
    /\ \A k \in RELATED_COLLECTIONS(e.cls) :
          /\ k \in DOMAIN e.attrs
          /\ e.attrs[k].data = DictGet(e.dict, k, PyList("[]"))
    /\ \A k \in RELATED_FIELDS(e.cls) :
          IF Truthy(DictGet(e.dict, k, PyNone))
            THEN k \in DOMAIN e.attrs /\ e.attrs[k].data = e.dict[k]
            ELSE k \notin DOMAIN e.attrs

\* C15: after every reload that succeeded, the related views of the entity
\* are those of the payload just loaded; a related field that is null in the
\* payload exposes no wrapped entity.
ReloadRederivesViews ==
    [][(outcome'.op = "load" /\ outcome'.kind = "return") =>
            ViewsReflectFields(entity')
      ]_vars

\* C16: after an update or a partial_update whose response was merged, the
\* entity is what a reload with the same response would have made of it:
\* the fields are merged and the related views are those of the merged
\* fields.
UpdateMergesAsReload ==
    [][(/\ outcome'.op \in {"update", "partial_update"}
        /\ outcome'.kind = "return"
        /\ Merges(outcome')) =>
            /\ entity' = update_related_fields(
                            update_entity_data(entity, server'.fields))
            /\ ViewsReflectFields(entity')
      ]_vars

\* C20: partial_update(name=n) on a breadcrumb or a service, every request
\* answered 200, returns with the name n on the server and in the entity and
\* with every other field of the entity as it was.
PartialUpdateOffered ==
    [][(/\ outcome'.op = "call" /\ outcome'.item = "partial_update"
        /\ entity.cls \in {"Breadcrumb", "Service"}
        /\ \A i \in 1..Len(outcome'.answers) : outcome'.answers[i] = 200)
       => /\ outcome'.kind = "return"
          /\ server'.fields["name"] = outcome'.data["name"]
          /\ "name" \in DOMAIN entity'.dict
          /\ entity'.dict["name"] = outcome'.data["name"]
          /\ \A k \in DOMAIN entity.dict \ {"name"} :
                k \in DOMAIN entity'.dict /\ entity'.dict[k] = entity.dict[k]
      ]_vars

\* C24: an operation that takes the id of another entity and accepts it
\* sends its POST to the url of the entity with the name of the operation
\* appended; when the POST fails it sends nothing more and leaves the entity
\* as it was; otherwise it sends one GET to the url of the entity, and when
\* that is answered every related collection of the entity shows what the
\* server holds after the change.
IdOperationReloads ==
    [][(outcome'.op \in IdOperations /\ outcome'.exc # "BadParamError") =>
          /\ Len(outcome'.sent) >= 1
          /\ outcome'.sent[1] =
                Request("post", entity.dict["url"].repr \o outcome'.op \o "/",
                        outcome'.data)
          /\ IF outcome'.answers[1] # 200
                THEN /\ Len(outcome'.sent) = 1
                     /\ outcome'.kind = "raise"
                     /\ entity' = entity
                     /\ server' = server
                ELSE /\ Len(outcome'.sent) = 2
                     /\ outcome'.sent[2] = ReloadRequest
                     /\ outcome'.answers[2] = 200 =>
                           /\ outcome'.kind = "return"
                           /\ \A k \in RELATED_COLLECTIONS(entity.cls) :
                                 /\ k \in DOMAIN entity'.attrs
                                 /\ entity'.attrs[k].data =
                                       DictGet(server'.fields, k, PyList("[]"))
      ]_vars

\* connect_to_service returned on a breadcrumb that showed no attached
\* service, and the view shows the service.
IdOperationReloadsWitness ==
    /\ outcome.op = "connect_to_service" /\ outcome.kind = "return"
    /\ outcome.answers = <<200, 200>>
    /\ server.fields["attached_services"] = PyList("[{id: 7}]")
    /\ entity.attrs["attached_services"].data = PyList("[{id: 7}]")

\* The operations of an entity that send a request on its url: the lazy
\* attribute access (that of a method the class lacks included), load,
\* update, partial_update and delete.
EntityOperations == {"getattr", "call", "load", "update", "partial_update", "delete"}

StubGrowsOnFirstAccess ==
    [][(/\ outcome'.op = "getattr"
        /\ DOMAIN entity.dict = {"id", "url"}
        /\ server.exists
        /\ outcome'.item \in DOMAIN server.fields \ {"id", "url"}) =>
          /\ outcome'.sent = <<ReloadRequest>>
          /\ outcome'.answers = <<200>> =>
                /\ outcome'.kind = "return"
                /\ outcome'.value.repr = server.fields[outcome'.item].repr
                /\ DOMAIN entity'.dict = DOMAIN server.fields
      ]_vars

-----------------------------------------------------------------------------
(* The claims about iterations *)

\* C17: every new iteration of an instance, whatever became of the one
\* before (none, ended, failed, or abandoned part-way), sends one new request
\* for the first page, with the parameters of the instance and no page
\* parameter, and starts with nothing yielded and the first page of the
\* server's current contents; every page an iteration holds was fetched by
\* the step that put it there, and a yield sends no request.
IterationStartsAfresh ==
    [][/\ outcome'.op = "iter" =>
            /\ outcome'.sent =
                  <<[method |-> "get", url |-> get_url(colls[outcome'.target].cls),
                     params |-> born[outcome'.target].params,
                     data |-> EmptyDict]>>
            /\ "page" \notin DOMAIN outcome'.sent[1].params
            /\ outcome'.kind = "return" =>
                  /\ iter'.pc = "chunk" /\ iter'.pages = 1 /\ ~iter'.dirty
                  /\ iter'.yielded = <<>>
                  /\ iter'.chunk = SubSeq(items, 1, Min(pageSize, Len(items)))
                  /\ (iter'.next # NoUrl) <=> (pageSize < Len(items))
       /\ (outcome'.op = "next_page" /\ outcome'.kind = "return") =>
            /\ Len(outcome'.sent) = 1
            /\ iter'.yielded = iter.yielded
            /\ iter'.chunk =
                  SubSeq(items, iter.pages * pageSize + 1,
                         Min(iter'.pages * pageSize, Len(items)))
       /\ outcome'.op = "yield" =>
            /\ outcome'.sent = <<>>
            /\ iter.chunk = <<Head(iter.chunk)>> \o iter'.chunk
      ]_vars

\* An iteration was abandoned part-way and the next one of the same
\* instance started from the first item of three.
IterationStartsAfreshWitness ==
    /\ outcome.op = "iter" /\ outcome.item = "chunk" /\ outcome.kind = "return"
    /\ Len(items) = 3 /\ pageSize = 2
    /\ iter.yielded = <<>>
    /\ iter.chunk = <<1, 2>>
    /\ iter.pages = 1

\* The names in the query string of the url u, and the values under a name.
QueryNames(u) == {u.query[i][1] : i \in DOMAIN u.query}

QueryValues(u, k) == {u.query[i][2] : i \in {j \in DOMAIN u.query : u.query[j][1] = k}}

\* The url and the explicit parameters that the request of the step was
\* made from: the url of the collection for a first page, the link of the
\* page before for a next page; the parameters of the instance for both.
RequestUrl ==
    IF outcome'.op = "iter" THEN Url(get_url(colls[outcome'.target].cls), <<>>)
                            ELSE iter.next

RequestParams == get_query_params(colls[outcome'.target])

\* C21: the request of a page is sent to the url without its query string,
\* with the parameters named in the query string of the url or given
\* explicitly: the explicit value under every name given explicitly, and the
\* set of the values of the query string under every other name.
QueryParamsMerged ==
    [][outcome'.op \in {"iter", "next_page"} =>
          LET q == outcome'.sent[1]
          IN  /\ Len(outcome'.sent) = 1
              /\ q.url = RequestUrl.path
              /\ DOMAIN q.params = QueryNames(RequestUrl) \cup DOMAIN RequestParams
              /\ \A k \in DOMAIN RequestParams : q.params[k] = RequestParams[k]
              /\ \A k \in QueryNames(RequestUrl) \ DOMAIN RequestParams :
                    q.params[k] = [type |-> "set",
                                   members |-> QueryValues(RequestUrl, k)]
      ]_vars

\* The second page was asked for with the per_page of the instance, the link
\* naming per_page=2, and with the page of the link.
QueryParamsMergedWitness ==
    /\ outcome.op = "next_page" /\ pageSize = 2
    /\ DOMAIN outcome.sent[1].params = DOMAIN get_query_params(colls[outcome.target])
                                          \cup {"page"}
    /\ outcome.sent[1].params["per_page"] = ENTRIES_PER_PAGE
    /\ outcome.sent[1].params["page"] = [type |-> "set", members |-> {"2"}]

\* C22: the request that follows a link carries the values of the link under
\* every name the link gives, and the parameters of the instance under the
\* names the link does not give.
LinkOverridesFilters ==
    [][outcome'.op = "next_page" =>
          LET q == outcome'.sent[1]
          IN  /\ \A k \in QueryNames(iter.next) :
                    /\ k \in DOMAIN q.params
                    /\ q.params[k] = [type |-> "set",
                                      members |-> QueryValues(iter.next, k)]
              /\ \A k \in DOMAIN RequestParams \ QueryNames(iter.next) :
                    k \in DOMAIN q.params /\ q.params[k] = RequestParams[k]
      ]_vars

\* C25: when the request of a page is answered with a 4xx or 5xx status the
\* iteration raises ValidationError or ServerError with that status, having
\* sent that one request; what it had yielded, the items of the pages before
\* in order, is what it has yielded, and it holds no item of the page; and
\* the iteration that has raised yields nothing, fetches nothing and does not
\* end again.
IterationFailureAborts ==
    [][/\ (outcome'.op \in {"iter", "next_page"} /\ outcome'.answers # <<200>>) =>
            /\ Len(outcome'.sent) = 1
            /\ outcome'.kind = "raise"
            /\ outcome'.exc = IF Is4xx(outcome'.answers[1]) THEN "ValidationError"
                                                            ELSE "ServerError"
            /\ outcome'.code = outcome'.answers[1]
            /\ iter'.pc = "failed"
            /\ iter'.chunk = <<>>
            /\ iter'.yielded = IF outcome'.op = "iter" THEN <<>> ELSE iter.yielded
            /\ ~iter.dirty =>
                  iter'.yielded = SubSeq(items, 1, (iter'.pages - 1) * pageSize)
       /\ iter.pc = "failed" =>
            /\ outcome'.op \notin {"next_page", "yield", "stop"}
            /\ outcome'.op # "iter" => iter'.pc \notin {"chunk", "done"}
      ]_vars

\* The request of the second page of three items in pages of two was
\* answered 500: the iteration raised with the two items of the first page
\* yielded.
IterationFailureAbortsWitness ==
    /\ iter.pc = "failed" /\ iter.pages = 2 /\ pageSize = 2
    /\ Len(items) = 3
    /\ iter.yielded = <<1, 2>>
    /\ outcome.op = "next_page" /\ outcome.exc = "ServerError"

=============================================================================
